---- MODULE Spec2Model ----
(***************************************************************************)
(* The rate-limited request gateway of src/api/rate-limiter.js:            *)
(*   - RequestQueue (queue, processing, lastRequestTime, activeRequests),  *)
(*     with addRequest and the drain loop processQueue;                    *)
(*   - makeRateLimitedRequest, the retry loop with exponential backoff;    *)
(* the alert checker of src/unnamed/part_006, a caller of the gateway, and  *)
(* the first-post tracking of src/api/webhook.js (getFirstPostInfo,        *)
(* storeFirstPostInfo and the address branch of the handler).              *)
(* JavaScript runs one event-loop turn at a time: an action of this model  *)
(* is one turn (a call from outside, a timer firing, a requestFn settling) *)
(* together with every synchronous statement and every promise reaction    *)
(* (microtask) that the turn runs before the next timer or I/O event.      *)
(***************************************************************************)
EXTENDS Integers, Sequences, FiniteSets, TLC

\* ---------------------------------------------------------------- bounds
MaxSubmissions == 3    \* calls of the gateway made by the environment
MaxRetriesBound == 2   \* largest options.maxRetries a caller passes
TickMs == 600          \* granularity of the clock
MaxAlerts == 2         \* price alerts in the document store
MaxRuns == 2           \* invocations of the alert checker's handler
ClockStep == 900000    \* granularity of the alert checker's clock (15 min)
MaxClockSteps == 2     \* clock steps of a run of the alert checker

\* ------------------------------------------------------ program constants
minRequestInterval == 1200
TooManyRequests == 429

\* The callers: makeRateLimitedRequest invocations and direct
\* requestQueue.addRequest submissions, MaxSubmissions of them in all.
Calls == {1, 2}
Subs == {1, 2}

\* What a requestFn can settle with: a response (200), an HTTP error with a
\* response (429, 500), or an error that carries no response (0).
Statuses == {200, TooManyRequests, 500, 0}
\* The requestFn of a direct submission: a response or an HTTP error.
SubStatuses == {200, 500}

\* The retry options the callers of one run pass to makeRateLimitedRequest;
\* useQueue is chosen call by call.
RetryOptions ==
    [maxRetries : 0..MaxRetriesBound, baseDelay : {400}, maxDelay : {600},
     backoffMultiplier : {1, 2}]

WithUseQueue(ro, useQueue) ==
    [maxRetries |-> ro.maxRetries, baseDelay |-> ro.baseDelay,
     maxDelay |-> ro.maxDelay, backoffMultiplier |-> ro.backoffMultiplier,
     useQueue |-> useQueue]

\* The option names and the defaults of the destructuring at the head of
\* makeRateLimitedRequest.
OptionNames ==
    {"maxRetries", "baseDelay", "maxDelay", "backoffMultiplier", "useQueue"}

\* Mutant of DefaultOptions: the defaults the comment above the function
\* documents (baseDelay 5000, maxDelay 60000).
DocumentedDefaults ==
    [maxRetries |-> 5, baseDelay |-> 5000, maxDelay |-> 60000,
     backoffMultiplier |-> 2, useQueue |-> TRUE]

DefaultOptions ==
    [maxRetries |-> 5, baseDelay |-> 2000, maxDelay |-> 30000,
     backoffMultiplier |-> 2, useQueue |-> TRUE]

\* const { maxRetries = 5, ... } = options: options is a record with some
\* of the option names; a name it lacks gets its default.
Destructure(options) ==
    [n \in OptionNames |->
        IF n \in DOMAIN options THEN options[n] ELSE DefaultOptions[n]]

\* defaultOptions of makeRateLimitedAxiosRequest before the spread.
AxiosDefaultOptions ==
    [maxRetries |-> 5, baseDelay |-> 2000, maxDelay |-> 30000,
     backoffMultiplier |-> 2, useQueue |-> TRUE]

\* { maxRetries: 5, ..., useQueue: true, ...retryOptions }
Spread(retryOpts) ==
    [n \in OptionNames |->
        IF n \in DOMAIN retryOpts THEN retryOpts[n] ELSE AxiosDefaultOptions[n]]

\* The options objects the callers of one run may pass when some options are
\* left out: every subset of the option names, with values that are not the
\* defaults.
SuppliedValues ==
    [maxRetries |-> 1, baseDelay |-> 400, maxDelay |-> 600,
     backoffMultiplier |-> 1, useQueue |-> FALSE]

SuppliedOptions ==
    {[n \in D |-> SuppliedValues[n]] : D \in SUBSET OptionNames}

NoOptions ==
    [maxRetries |-> 0, baseDelay |-> 0, maxDelay |-> 0,
     backoffMultiplier |-> 1, useQueue |-> TRUE]

\* ------------------------------------------------------------------ keys
\* Keys are strings in the program; here they are triples of one shape.
CallerKeys == {<<"key", 1, 0>>}
NoKey == <<"null", 0, 0>>
\* `${requestKey}_${attempt}` with requestKey = rate_limit_<now>_<random>
AttemptKey(c, attempt) == <<"rate_limit", c, attempt>>
\* Mutant of GeneratedKey: every generated key is the same.
ConstantKey(d) == <<"req", 0, 0>>

\* `req_${Date.now()}_${Math.random()}`
GeneratedKey(d) == <<"req", d, 0>>

CallOwner(c) == <<"call", c>>
SubOwner(d) == <<"sub", d>>

\* --------------------------------------------------------------- outcomes
NoInvocation == <<"none", 0, 0>>
NoResult ==
    [ok |-> FALSE, name |-> "none", response |-> FALSE, status |-> 0,
     inv |-> NoInvocation]

\* The value or error object one invocation of a requestFn settles with; inv
\* is the identity of the object (which invocation produced it).
Outcome(status, inv) ==
    [ok |-> status = 200,
     name |-> IF status = 200 THEN "Response" ELSE "UpstreamError",
     response |-> status # 0,
     status |-> status,
     inv |-> inv]

Min2(a, b) == IF a < b THEN a ELSE b

\* What is left of a sleep of ms milliseconds after one tick of the clock.
Elapse(ms) == IF ms > TickMs THEN ms - TickMs ELSE 0

\* What is left of it after dt milliseconds.
ElapseBy(ms, dt) == IF ms > dt THEN ms - dt ELSE 0

RECURSIVE Pow(_, _)
Pow(b, n) == IF n = 0 THEN 1 ELSE b * Pow(b, n - 1)

\* A makeRateLimitedRequest invocation that has not been made.
NewCall ==
    [pc |-> "idle", opts |-> NoOptions, attempt |-> 0, invoked |-> 0,
     hist |-> <<>>, delays |-> <<>>, sleep |-> 0, result |-> NoResult]

VARIABLES
    retryOptions,     \* the options object the callers pass (useQueue apart)
    queue,            \* RequestQueue.queue
    processing,       \* RequestQueue.processing
    timeSinceLastRequest,  \* Date.now() - RequestQueue.lastRequestTime
    activeRequests,   \* key -> owners whose handlers hang on the key's promise
    loops,            \* processQueue invocations suspended inside the while loop
    calls,            \* the makeRateLimitedRequest invocations
    subs,             \* the direct addRequest submissions
    pushed,           \* history: number of entries pushed so far
    dispatched,       \* history: number of requestFn invoked by drain loops
    lastDispatch,     \* history: the latest dispatch of a drain loop
    checker,          \* the alert checker: its module state and its run
    webhook           \* the webhook handler: first_posts and its invocations

vars ==
    <<retryOptions, queue, processing, timeSinceLastRequest, activeRequests,
      loops, calls, subs, pushed, dispatched, lastDispatch, checker, webhook>>

\* The variables of the gateway that a step of its callers can change.
gateway ==
    <<queue, processing, timeSinceLastRequest, activeRequests, loops, subs,
      pushed, dispatched, lastDispatch>>

\* --------------------------------------------------- makeRateLimitedRequest
\* Mutant of IsRateLimit: every error that carries a response is retried.
RetriesAnyResponse(e) == e.response

\* error.response && error.response.status === 429
IsRateLimit(e) == e.response /\ e.status = TooManyRequests

\* Mutant of BackoffDelay: the delay is not capped by maxDelay.
UncappedDelay(opts, attempt) ==
    opts.baseDelay * Pow(opts.backoffMultiplier, attempt)

\* Math.min(baseDelay * Math.pow(backoffMultiplier, attempt), maxDelay)
BackoffDelay(opts, attempt) ==
    Min2(opts.baseDelay * Pow(opts.backoffMultiplier, attempt), opts.maxDelay)

\* Mutant of ExhaustedRejection: a new error is thrown, without the response.
ThrowsNewError(e) == [e EXCEPT !.response = FALSE, !.status = 0]

\* What the catch block throws at retry exhaustion: `throw error`.
ExhaustedRejection(e) == e

\* attempt <= maxRetries
LoopCondition(cr) == cr.attempt <= cr.opts.maxRetries

\* Mutant of IsLastAttempt: the loop gives up one attempt early.
GivesUpEarly(cr) == cr.attempt + 1 >= cr.opts.maxRetries

\* attempt === maxRetries
IsLastAttempt(cr) == cr.attempt = cr.opts.maxRetries

\* Mutant of ReturnValue: the error of the attempt before is returned.
ReturnsLastError(cr, o) == IF Len(cr.hist) > 0 THEN cr.hist[Len(cr.hist)] ELSE o

\* return response
ReturnValue(cr, o) == o

\* The continuation of `await ...` in the retry loop once the awaited promise
\* has settled with o: return, sleep before the next attempt, or throw.
CallAfter(cr, o) ==
    LET seen == [cr EXCEPT !.hist = Append(@, o)] IN
    IF o.ok
    THEN [seen EXCEPT !.pc = "resolved", !.result = ReturnValue(cr, o)]
    ELSE IF IsRateLimit(o)
         THEN IF IsLastAttempt(cr)
              THEN [seen EXCEPT !.pc = "rejected",
                                !.result = ExhaustedRejection(o)]
              ELSE [seen EXCEPT
                       !.pc = "backoff",
                       !.delays = Append(@, BackoffDelay(cr.opts, cr.attempt)),
                       !.sleep = BackoffDelay(cr.opts, cr.attempt)]
         ELSE [seen EXCEPT !.pc = "rejected", !.result = o]

\* The promise a caller awaits has settled.
Settled(pc) == pc \in {"resolved", "rejected"}

\* Mutant of SubAfter: an error resolves the caller's promise.
ResolvesAlways(sr, o) == [sr EXCEPT !.pc = "resolved", !.result = o]

\* The promise reactions of an addRequest caller that is not a retry loop.
SubAfter(sr, o) ==
    [sr EXCEPT !.pc = IF o.ok THEN "resolved" ELSE "rejected", !.result = o]

\* Every owner in W observes the outcome o.
SettleCalls(cs, W, o) ==
    [c \in Calls |-> IF CallOwner(c) \in W THEN CallAfter(cs[c], o) ELSE cs[c]]

SettleSubs(ss, W, o) ==
    [d \in Subs |-> IF SubOwner(d) \in W THEN SubAfter(ss[d], o) ELSE ss[d]]

\* requestFn() of each dispatched entry is invoked.
InvokeCalls(cs, disp) ==
    [c \in Calls |->
        IF \E i \in 1..Len(disp) : disp[i].owner = CallOwner(c)
        THEN [cs[c] EXCEPT !.invoked = @ + 1] ELSE cs[c]]

InvokeSubs(ss, disp) ==
    [d \in Subs |->
        IF \E i \in 1..Len(disp) : disp[i].owner = SubOwner(d)
        THEN [ss[d] EXCEPT !.invoked = @ + 1] ELSE ss[d]]

\* The identity of the invocation of owner's requestFn that is running.
RunningInvocation(owner) ==
    IF owner[1] = "call"
    THEN <<"call", owner[2], calls[owner[2]].invoked>>
    ELSE <<"sub", owner[2], subs[owner[2]].invoked>>

\* ------------------------------------------------------------ RequestQueue
\* Mutant of IsActive: the duplicate check never finds the key.
NeverActive(key) == FALSE

\* this.activeRequests.has(key)
IsActive(key) == key \in DOMAIN activeRequests

\* Mutant of Delete: the key stays registered after the request settled.
KeepsKey(active, key) == active

\* this.activeRequests.delete(key)
Delete(active, key) == [k \in DOMAIN active \ {key} |-> active[k]]

\* Mutant of Set: the key is not registered.
NotRegistered(active, key) == active

\* this.activeRequests.set(key, requestPromise): a promise with no handlers
Set(active, key) ==
    [k \in DOMAIN active \cup {key} |-> IF k = key THEN {} ELSE active[k]]

\* Mutant of Attached: only then(resolve) is hung on the existing promise.
AttachedThenOnly(key, o) ==
    IF key \in DOMAIN activeRequests /\ o.ok THEN activeRequests[key] ELSE {}

\* existingPromise.then(resolve).catch(reject): the owners that attached to
\* the promise of key and observe its outcome o.
Attached(key, o) ==
    IF key \in DOMAIN activeRequests THEN activeRequests[key] ELSE {}

\* this.queue.push(entry)
Push(q, entry) == Append(q, entry)

\* Mutant of Shift: the newest entry is taken (pop instead of shift).
TakesNewest(q) == [item |-> q[Len(q)], rest |-> SubSeq(q, 1, Len(q) - 1)]

\* this.queue.shift()
Shift(q) == [item |-> Head(q), rest |-> Tail(q)]

\* Mutant of ShouldDrain: the processing flag is not tested.
IgnoresProcessing(proc, q) == Len(q) > 0

\* if (this.processing || this.queue.length === 0) return;
ShouldDrain(proc, q) == ~proc /\ Len(q) > 0

\* Mutant of NeedsPacing: the drain loop never sleeps.
NeverPaces(since) == FALSE

\* timeSinceLastRequest < this.minRequestInterval
NeedsPacing(since) == since < minRequestInterval

\* Mutant of PacingWait: the loop always sleeps the whole interval.
WholeInterval(since) == minRequestInterval

\* waitTime = this.minRequestInterval - timeSinceLastRequest
PacingWait(since) == minRequestInterval - since

\* The record of one dispatch: gap is the time since the dispatch before it.
Dispatch(item) ==
    [key |-> item.key, owner |-> item.owner, seq |-> item.seq,
     gap |-> timeSinceLastRequest]

NoDispatch ==
    [key |-> NoKey, owner |-> <<"none", 0>>, seq |-> 0, gap |-> 0]

\* The latest dispatch once the entries of disp (none or one) are dispatched.
LatestDispatch(disp) ==
    IF Len(disp) = 0 THEN lastDispatch ELSE Dispatch(disp[Len(disp)])

\* Mutant of Draining: the flag is not raised when a drain loop starts.
FlagNotRaised == FALSE

\* this.processing = true
Draining == TRUE

\* Mutant of Drained: the flag is not cleared when the drain loop ends.
FlagNotCleared == TRUE

\* this.processing = false
Drained == FALSE

\* A suspended drain loop is a record: pc ("sleep" in the pacing sleep, "exec"
\* awaiting requestFn), the entry it shifted (item), what is left of the
\* sleep, and its locals timeSinceLastRequest (elapsed) and waitTime (wait, 0
\* when it did not sleep).
\* One pass of the drain loop from the test of the while condition to its
\* next await: either the loop ends (processing = false; the queue is empty
\* there, so the setImmediate of line 94 is never scheduled), or it shifts
\* the oldest entry and suspends in the pacing sleep, or it stamps
\* lastRequestTime, invokes requestFn and suspends on its promise.
LoopTop(q, since) ==
    IF Len(q) = 0
    THEN [queue |-> q, processing |-> Drained, since |-> since, loop |-> {},
          disp |-> <<>>]
    ELSE LET s == Shift(q) IN
         IF NeedsPacing(since)
         THEN [queue |-> s.rest, processing |-> Draining, since |-> since,
               loop |-> {[pc |-> "sleep", item |-> s.item,
                          sleep |-> PacingWait(since), elapsed |-> since,
                          wait |-> PacingWait(since)]},
               disp |-> <<>>]
         ELSE [queue |-> s.rest, processing |-> Draining, since |-> 0,
               loop |-> {[pc |-> "exec", item |-> s.item, sleep |-> 0,
                          elapsed |-> since, wait |-> 0]},
               disp |-> <<s.item>>]

\* processQueue() called with the queue q.
ProcessQueue(q, proc, since) ==
    IF ShouldDrain(proc, q)
    THEN LoopTop(q, since)
    ELSE [queue |-> q, processing |-> proc, since |-> since, loop |-> {},
          disp |-> <<>>]

\* addRequest(requestFn of owner, key), the calls and subs being cs and ss
\* when it is called. An active key: the caller's resolve and reject are hung
\* on the existing promise. Otherwise the entry is pushed, the key is
\* registered and processQueue() runs up to its first await.
AddRequest(owner, key, cs, ss) ==
    IF IsActive(key)
    THEN /\ activeRequests' = [activeRequests EXCEPT ![key] = @ \cup {owner}]
         /\ calls' = cs
         /\ subs' = ss
         /\ UNCHANGED <<queue, processing, timeSinceLastRequest, loops,
                        pushed, dispatched, lastDispatch>>
    ELSE LET r == ProcessQueue(
                      Push(queue, [key |-> key, owner |-> owner, seq |-> pushed]),
                      processing, timeSinceLastRequest) IN
         /\ activeRequests' = Set(activeRequests, key)
         /\ queue' = r.queue
         /\ processing' = r.processing
         /\ timeSinceLastRequest' = r.since
         /\ loops' = loops \cup r.loop
         /\ pushed' = pushed + 1
         /\ dispatched' = dispatched + Len(r.disp)
         /\ lastDispatch' = LatestDispatch(r.disp)
         /\ calls' = InvokeCalls(cs, r.disp)
         /\ subs' = InvokeSubs(ss, r.disp)

\* Mutant of UseQueue: every attempt goes through the queue.
AlwaysQueues(opts) == TRUE

\* useQueue ? await requestQueue.addRequest(...) : await requestFn()
UseQueue(opts) == opts.useQueue

\* One attempt of the retry loop: through the queue, or requestFn() at once.
StartAttempt(c, cr) ==
    IF UseQueue(cr.opts)
    THEN AddRequest(CallOwner(c), AttemptKey(c, cr.attempt),
                    [calls EXCEPT ![c] = [cr EXCEPT !.pc = "queued", !.sleep = 0]],
                    subs)
    ELSE /\ calls' = [calls EXCEPT ![c] =
                        [cr EXCEPT !.pc = "direct", !.sleep = 0,
                                   !.invoked = @ + 1]]
         /\ UNCHANGED <<queue, processing, timeSinceLastRequest,
                        activeRequests, loops, subs, pushed, dispatched, lastDispatch>>

\* History kept with a direct submission. dupOf: the earlier direct
\* submission with the same key that is still unsettled and is not itself a
\* duplicate (0 if there is none). callPc and callAttempt: where the retry
\* loop that made the key stands when the submission is made ("none" and 0
\* for any other key).
EarlierPending(key) ==
    LET P == {d \in Subs : subs[d].pc = "pending" /\ subs[d].key = key} IN
    IF P = {} THEN 0
    ELSE LET d == CHOOSE x \in P : TRUE IN
         IF subs[d].dupOf # 0 THEN subs[d].dupOf ELSE d

PcOfKey(key) == IF key[1] = "rate_limit" THEN calls[key[2]].pc ELSE "none"

AttemptOfKey(key) ==
    IF key[1] = "rate_limit" THEN calls[key[2]].attempt ELSE 0

\* The environment has made fewer than MaxSubmissions calls so far.
MaySubmit ==
    Cardinality({c \in Calls : calls[c].pc # "idle"})
        + Cardinality({d \in Subs : subs[d].pc # "idle"}) < MaxSubmissions

\* ------------------------------------------------------------ alert checker
\* The price alerts of the document store. Alert 1 is on a symbol of the
\* priority table, alert 2 on a symbol that needs a search, any further
\* alert has no symbol.
Alerts == 1..MaxAlerts

SymbolOf(a) == IF a = 1 THEN "btc" ELSE IF a = 2 THEN "pepe" ELSE ""

\* priority[s] is defined
IsPriority(symbol) ==
    symbol \in {"btc", "eth", "usdt", "usdc", "bnb", "xrp", "sol", "doge"}

\* The slot of calls that holds the upstream call of the alert checker, and
\* the slot of a call made meanwhile by a webhook handler.
CheckerCall == 2
WebhookCall == 1

\* Mutant of ALERT_CHECKER_RATE_LIMIT_CONFIG: the options of the general path.
GeneralConfig ==
    [maxRetries |-> 5, baseDelay |-> 2000, maxDelay |-> 30000,
     backoffMultiplier |-> 2, useQueue |-> TRUE]

ALERT_CHECKER_RATE_LIMIT_CONFIG ==
    [maxRetries |-> 1, baseDelay |-> 2000, maxDelay |-> 5000,
     backoffMultiplier |-> 2, useQueue |-> FALSE]

\* lastRateLimitTime is "unset" (0), "recent" (less than RATE_LIMIT_COOLDOWN
\* ago) or "expired"; the other fields are the document store (active), the
\* run in progress (pc, docs, i, triggeredCount), the response of the latest
\* run (status, skipped) and history of the run: what getCoinDataWithChanges
\* returned for each alert (coin), the alerts a notification was posted for
\* (sent), the upstream calls that settled (upstream), whether the document
\* store failed (dbError).
CheckerInit ==
    [pc |-> "idle", docs |-> <<>>, i |-> 0, triggeredCount |-> 0,
     status |-> 0, skipped |-> FALSE, lastRateLimitTime |-> "unset",
     active |-> [a \in Alerts |-> TRUE], runs |-> 0,
     coin |-> [a \in Alerts |-> "none"], sent |-> {}, upstream |-> <<>>,
     dbError |-> FALSE]

\* lastRateLimitTime > 0 && (now - lastRateLimitTime) < RATE_LIMIT_COOLDOWN
InCooldown(t) == t = "recent"

\* e.response && e.response.status === 429, in getCoinDataWithChanges
SawRateLimit(e) == e.response /\ e.status = TooManyRequests

\* The documents of price_alerts where isActive == true.
ActiveDocs(active) ==
    SelectSeq([a \in 1..MaxAlerts |-> a], LAMBDA a : active[a])

\* getCoinDataWithChanges(symbol) up to its first await: it returns null
\* for a missing symbol, else it makes the markets call (priority symbol) or
\* the search call.
FirstStage(symbol) ==
    IF symbol = "" THEN "null"
    ELSE IF IsPriority(symbol) THEN "markets" ELSE "search"

\* catch (e) { ...; return null; }
CoinOnError == "null"

\* The for loop of checkPriceAlerts from document ck.i up to its next await:
\* an upstream call of getCoinDataWithChanges, or, the loop over, the
\* document store read of checkTimeReminders.
RECURSIVE LoopFrom(_)
LoopFrom(ck) ==
    IF ck.i > Len(ck.docs)
    THEN [ck EXCEPT !.pc = "reminders"]
    ELSE LET a == ck.docs[ck.i]
             stage == FirstStage(SymbolOf(a)) IN
         IF stage = "null"
         THEN LoopFrom([ck EXCEPT !.coin[a] = "null", !.i = @ + 1])
         ELSE [ck EXCEPT !.pc = stage]

\* `continue`, or the end of the loop body: on to the next document.
Continue(ck) == LoopFrom([ck EXCEPT !.i = @ + 1])

\* ----------------------------------------------------- webhook: first posts
\* The webhook invocations that handle a message holding a token address;
\* invocation w handles the message of user w, and the messages arrive in
\* the order 1, 2, 3.
Webhooks == {1, 2, 3}

\* The texts posted (one address, in two spellings) and the chats.
Texts == {"0xABC", "0xabc"}

Chats == {-1001, -1002}

\* address.toLowerCase()
ToLowerCase(text) == IF text = "0xABC" THEN "0xabc" ELSE text

\* String(chatId)
String(chatId) == IF chatId = -1001 THEN "-1001" ELSE "-1002"

NoFirstPost == [id |-> 0, address |-> "", chatId |-> "", firstUsername |-> 0]

\* The document storeFirstPostInfo writes; docRef = doc() gives it an id of
\* its own, here the number of the invocation.
FirstPost(w, text, chatId) ==
    [id |-> w, address |-> ToLowerCase(text), chatId |-> String(chatId),
     firstUsername |-> w]

\* .where('address', '==', address.toLowerCase())
\* .where('chatId', '==', String(chatId))
Matching(records, text, chatId) ==
    {rec \in records :
        rec.address = ToLowerCase(text) /\ rec.chatId = String(chatId)}

\* What getFirstPostInfo can return: with limit(1) and no orderBy, one of
\* the matching documents; null when there is none, or when the query
\* failed (the catch returns null).
FirstPostInfos(records, text, chatId) ==
    Matching(records, text, chatId) \cup {NoFirstPost}

\* The first_posts collection and the invocations: the message of each
\* (text, chat), where it stands (pc), and the first-post data it signed
\* its reply with (info).
WebhookInit ==
    [first_posts |-> {},
     hooks |-> [w \in Webhooks |->
                  [pc |-> "idle", text |-> "", chatId |-> 0,
                   info |-> NoFirstPost]]]

\* ----------------------------------------------------------------- actions
InitGateway ==
    /\ queue = <<>>
    /\ processing = FALSE
    /\ timeSinceLastRequest = minRequestInterval
    /\ activeRequests = <<>>
    /\ loops = {}
    /\ calls = [c \in Calls |-> NewCall]
    /\ subs = [d \in Subs |->
                 [pc |-> "idle", key |-> NoKey, attached |-> FALSE,
                  dupOf |-> 0, callPc |-> "none", callAttempt |-> 0,
                  invoked |-> 0,
                  result |-> NoResult]]
    /\ pushed = 0
    /\ dispatched = 0
    /\ lastDispatch = NoDispatch
    /\ checker = CheckerInit
    /\ webhook = WebhookInit

Init ==
    /\ retryOptions \in RetryOptions
    /\ InitGateway

\* TickMs of time pass: every pending timer has that much less to sleep and
\* Date.now() - lastRequestTime grows (it is only ever compared with
\* minRequestInterval, so it is kept up to that value).
Tick ==
    /\ timeSinceLastRequest' = Min2(timeSinceLastRequest + TickMs, minRequestInterval)
    /\ loops' = {[l EXCEPT !.sleep = Elapse(@)] : l \in loops}
    /\ calls' = [c \in Calls |-> [calls[c] EXCEPT !.sleep = Elapse(@)]]
    /\ UNCHANGED <<webhook, retryOptions, queue, processing, activeRequests, subs,
                   pushed, dispatched, lastDispatch, checker>>

\* makeRateLimitedRequest(requestFn, opts) is called: attempt 0 starts.
MakeRateLimitedRequest(c, useQueue) ==
    /\ MaySubmit
    /\ calls[c].pc = "idle"
    /\ \A b \in Calls : b < c => calls[b].pc # "idle"
    /\ StartAttempt(c, [calls[c] EXCEPT
                            !.opts = Destructure(WithUseQueue(retryOptions, useQueue))])
    /\ UNCHANGED <<webhook, retryOptions, checker>>

\* The backoff sleep of call c is over: `continue`, attempt++, and either the
\* next attempt starts or the for loop ends and lastError is thrown.
BackoffWake(c) ==
    LET cr == [calls[c] EXCEPT !.attempt = @ + 1] IN
    /\ calls[c].pc = "backoff"
    /\ calls[c].sleep = 0
    /\ IF LoopCondition(cr)
       THEN StartAttempt(c, cr)
       ELSE /\ calls' = [calls EXCEPT ![c] =
                           [cr EXCEPT !.pc = "rejected",
                                      !.result = cr.hist[Len(cr.hist)]]]
            /\ UNCHANGED <<queue, processing, timeSinceLastRequest,
                           activeRequests, loops, subs, pushed, dispatched,
                           lastDispatch>>
    /\ UNCHANGED <<webhook, retryOptions, checker>>

\* The requestFn that call c invoked outside the queue settles.
BypassSettles(c, status) ==
    /\ calls[c].pc = "direct"
    /\ calls' = [calls EXCEPT ![c] =
                    CallAfter(@, Outcome(status, <<"call", c, calls[c].invoked>>))]
    /\ UNCHANGED <<webhook, retryOptions, queue, processing, timeSinceLastRequest,
                   activeRequests, loops, subs, pushed, dispatched, lastDispatch,
                   checker>>

\* requestQueue.addRequest(requestFn, k) is called by other code; k = NoKey
\* stands for a call without a key.
SubmitDirect(d, k) ==
    LET key == IF k = NoKey THEN GeneratedKey(d) ELSE k IN
    /\ MaySubmit
    /\ subs[d].pc = "idle"
    /\ \A b \in Subs : b < d => subs[b].pc # "idle"
    /\ AddRequest(SubOwner(d), key, calls,
                  [subs EXCEPT ![d] = [@ EXCEPT !.pc = "pending", !.key = key,
                                                !.attached = IsActive(key),
                                                !.dupOf = EarlierPending(key),
                                                !.callPc = PcOfKey(key),
                                                !.callAttempt = AttemptOfKey(key)]])
    /\ UNCHANGED <<webhook, retryOptions, checker>>

\* The pacing sleep of a drain loop is over: lastRequestTime is stamped and
\* requestFn is invoked.
PacingWake(l) ==
    /\ l.pc = "sleep"
    /\ l.sleep = 0
    /\ timeSinceLastRequest' = 0
    /\ loops' = (loops \ {l}) \cup {[l EXCEPT !.pc = "exec"]}
    /\ dispatched' = dispatched + 1
    /\ lastDispatch' = Dispatch(l.item)
    /\ calls' = InvokeCalls(calls, <<l.item>>)
    /\ subs' = InvokeSubs(subs, <<l.item>>)
    /\ UNCHANGED <<webhook, retryOptions, queue, processing, activeRequests, pushed,
                   checker>>

\* The requestFn a drain loop awaits settles: the entry's resolve or reject
\* deletes the key and settles the inner promise and the submitter's promise,
\* the loop goes on to its next await, and the promise reactions run.
RequestSettles(l, status) ==
    LET o == Outcome(status, RunningInvocation(l.item.owner))
        fn == IF l.item.owner[1] = "sub" THEN SubStatuses ELSE Statuses
        W == {l.item.owner} \cup Attached(l.item.key, o)
        r == LoopTop(queue, timeSinceLastRequest)
    IN
    /\ l.pc = "exec"
    /\ status \in fn
    /\ activeRequests' = Delete(activeRequests, l.item.key)
    /\ queue' = r.queue
    /\ processing' = r.processing
    /\ timeSinceLastRequest' = r.since
    /\ loops' = (loops \ {l}) \cup r.loop
    /\ dispatched' = dispatched + Len(r.disp)
    /\ lastDispatch' = LatestDispatch(r.disp)
    /\ calls' = InvokeCalls(SettleCalls(calls, W, o), r.disp)
    /\ subs' = InvokeSubs(SettleSubs(subs, W, o), r.disp)
    /\ UNCHANGED <<webhook, retryOptions, pushed, checker>>

Next ==
    \/ Tick
    \/ \E c \in Calls, useQueue \in BOOLEAN : MakeRateLimitedRequest(c, useQueue)
    \/ \E c \in Calls : BackoffWake(c)
    \/ \E c \in Calls, status \in Statuses : BypassSettles(c, status)
    \/ \E d \in Subs, k \in CallerKeys \cup {NoKey} : SubmitDirect(d, k)
    \/ \E l \in loops : PacingWake(l)
    \/ \E l \in loops, status \in Statuses : RequestSettles(l, status)

Spec == Init /\ [][Next]_vars

\* The same program with an environment that submits, directly to the queue,
\* requests under the key of the latest attempt of a retry loop (the attempt
\* that is queued or executing, or the one that failed before the backoff
\* sleep in progress).
SubmitSharing(d, c) ==
    /\ calls[c].pc # "idle"
    /\ SubmitDirect(d, AttemptKey(c, calls[c].attempt))

NextSharing ==
    \/ Tick
    \/ \E c \in Calls : MakeRateLimitedRequest(c, TRUE)
    \/ \E c \in Calls : BackoffWake(c)
    \/ \E d \in Subs, c \in Calls : SubmitSharing(d, c)
    \/ \E l \in loops : PacingWake(l)
    \/ \E l \in loops, status \in Statuses : RequestSettles(l, status)

SpecSharing == Init /\ [][NextSharing]_vars

\* The program with an environment in which every request goes through the
\* queue (calls with useQueue = true and direct submissions).
NextQueued ==
    \/ Tick
    \/ \E c \in Calls : MakeRateLimitedRequest(c, TRUE)
    \/ \E c \in Calls : BackoffWake(c)
    \/ \E d \in Subs, k \in CallerKeys \cup {NoKey} : SubmitDirect(d, k)
    \/ \E l \in loops : PacingWake(l)
    \/ \E l \in loops, status \in Statuses : RequestSettles(l, status)

\* The scheduling the event loop provides: time passes, a timer that has
\* expired fires, and (the assumption made about the upstream) a requestFn
\* that was invoked settles.
Fairness ==
    /\ WF_vars(Tick)
    /\ \A c \in Calls : WF_vars(BackoffWake(c))
    /\ WF_vars(\E l \in loops : PacingWake(l))
    /\ WF_vars(\E l \in loops, status \in Statuses : RequestSettles(l, status))

SpecFair == Init /\ [][NextQueued]_vars /\ Fairness

\* makeRateLimitedAxiosRequest(axiosConfig, retryOpts) is called for slot c.
MakeRateLimitedAxiosRequest(c, retryOpts) ==
    StartAttempt(c, [NewCall EXCEPT !.opts = Destructure(Spread(retryOpts))])

\* The alert checker goes on as ck, the calls being cs: when ck awaits an
\* upstream call, getCoinDataWithChanges has just made it.
CheckerGoes(ck, cs) ==
    /\ checker' = ck
    /\ IF ck.pc \in {"search", "markets"}
       THEN MakeRateLimitedAxiosRequest(CheckerCall, ALERT_CHECKER_RATE_LIMIT_CONFIG)
       ELSE calls' = cs /\ UNCHANGED gateway

\* handler(req, res) is invoked: during the cooldown it answers 200 with
\* skipped: true; otherwise checkPriceAlerts reads the active alerts.
Handler ==
    LET run == [checker EXCEPT
                   !.runs = @ + 1, !.docs = <<>>, !.i = 0,
                   !.triggeredCount = 0, !.coin = [a \in Alerts |-> "none"],
                   !.sent = {}, !.upstream = <<>>, !.dbError = FALSE] IN
    /\ checker.pc \in {"idle", "done"}
    /\ checker.runs < MaxRuns
    /\ checker' =
          IF InCooldown(checker.lastRateLimitTime)
          THEN [run EXCEPT !.pc = "done", !.status = 200, !.skipped = TRUE]
          ELSE [run EXCEPT !.pc = "snapshot", !.status = 0, !.skipped = FALSE]
    /\ UNCHANGED <<webhook, retryOptions, calls, gateway>>

\* The read of price_alerts settles: the loop over the documents starts, or
\* the error is rethrown and the handler answers 500.
SnapshotArrives(ok) ==
    /\ checker.pc = "snapshot"
    /\ IF ok
       THEN CheckerGoes(LoopFrom([checker EXCEPT
                                     !.docs = ActiveDocs(checker.active),
                                     !.i = 1]), calls)
       ELSE /\ checker' = [checker EXCEPT !.pc = "done", !.status = 500,
                                          !.dbError = TRUE]
            /\ UNCHANGED <<calls, gateway>>
    /\ UNCHANGED <<webhook, retryOptions>>

\* The requestFn of the upstream call of getCoinDataWithChanges settles with
\* status; found: the response holds the coin; triggered: its price meets
\* the condition of the alert. The retry loop sleeps before its retry, or
\* the call settles and getCoinDataWithChanges and the loop of
\* checkPriceAlerts go on to their next await.
UpstreamSettles(status, found, triggered) ==
    LET o == Outcome(status, <<"call", CheckerCall, calls[CheckerCall].invoked>>)
        after == CallAfter(calls[CheckerCall], o)
        cs == [calls EXCEPT ![CheckerCall] = after]
        a == checker.docs[checker.i]
        logged == [checker EXCEPT
                      !.upstream = Append(@, [alert |-> a, stage |-> checker.pc,
                                              call |-> after])]
        null == [logged EXCEPT !.coin[a] = "null"]
    IN
    /\ checker.pc \in {"search", "markets"}
    /\ calls[CheckerCall].pc = "direct"
    /\ IF ~Settled(after.pc)
       THEN calls' = cs /\ UNCHANGED <<gateway, checker>>
       ELSE IF after.pc = "rejected"
       THEN CheckerGoes(
                Continue([logged EXCEPT
                             !.coin[a] = CoinOnError,
                             !.lastRateLimitTime =
                                 IF SawRateLimit(after.result) THEN "recent" ELSE @]),
                cs)
       ELSE IF ~found
       THEN CheckerGoes(Continue(null), cs)
       ELSE IF checker.pc = "search"
       THEN CheckerGoes([logged EXCEPT !.pc = "markets"], cs)
       ELSE IF triggered
       THEN CheckerGoes([logged EXCEPT !.coin[a] = "coin", !.sent = @ \cup {a},
                                       !.pc = "send"], cs)
       ELSE CheckerGoes(Continue([logged EXCEPT !.coin[a] = "coin"]), cs)
    /\ UNCHANGED <<webhook, retryOptions>>

\* The sendMessage post settles: the alert is then updated, or the error is
\* caught and the loop goes on.
SendSettles(ok) ==
    /\ checker.pc = "send"
    /\ CheckerGoes(IF ok THEN [checker EXCEPT !.pc = "update"]
                   ELSE Continue(checker), calls)
    /\ UNCHANGED <<webhook, retryOptions>>

\* doc.ref.update({ isActive: false }) settles: the alert is counted, or the
\* error is caught; the loop goes on.
UpdateSettles(ok) ==
    LET a == checker.docs[checker.i] IN
    /\ checker.pc = "update"
    /\ CheckerGoes(IF ok
                   THEN Continue([checker EXCEPT !.active[a] = FALSE,
                                                 !.triggeredCount = @ + 1])
                   ELSE Continue(checker), calls)
    /\ UNCHANGED <<webhook, retryOptions>>

\* checkTimeReminders settles (it sends the reminders that are due and catches
\* the errors of its posts; it throws when the document store fails): the
\* handler answers 200 with the summary, or 500.
RemindersSettle(ok) ==
    /\ checker.pc = "reminders"
    /\ checker' = IF ok THEN [checker EXCEPT !.pc = "done", !.status = 200]
                  ELSE [checker EXCEPT !.pc = "done", !.status = 500,
                                       !.dbError = TRUE]
    /\ UNCHANGED <<webhook, retryOptions, calls, gateway>>

\* RATE_LIMIT_COOLDOWN has passed since lastRateLimitTime was set.
CooldownPasses ==
    /\ checker.lastRateLimitTime = "recent"
    /\ checker' = [checker EXCEPT !.lastRateLimitTime = "expired"]
    /\ UNCHANGED <<webhook, retryOptions, calls, gateway>>

\* The alert checker, and a webhook handler that uses the queue meanwhile.
NextAlerts ==
    \/ Tick
    \/ Handler
    \/ \E ok \in BOOLEAN : SnapshotArrives(ok)
    \/ \E status \in Statuses, found, triggered \in BOOLEAN :
          UpstreamSettles(status, found, triggered)
    \/ BackoffWake(CheckerCall)
    \/ \E ok \in BOOLEAN : SendSettles(ok)
    \/ \E ok \in BOOLEAN : UpdateSettles(ok)
    \/ \E ok \in BOOLEAN : RemindersSettle(ok)
    \/ CooldownPasses
    \/ MakeRateLimitedRequest(WebhookCall, TRUE)
    \/ BackoffWake(WebhookCall)
    \/ \E l \in loops : PacingWake(l)
    \/ \E l \in loops, status \in Statuses : RequestSettles(l, status)

\* The webhook handler passes one set of retry options.
InitAlerts ==
    /\ Init
    /\ retryOptions = [maxRetries |-> 1, baseDelay |-> 400, maxDelay |-> 600,
                       backoffMultiplier |-> 2]

SpecAlerts == InitAlerts /\ [][NextAlerts]_vars

\* The times after which something is due: the sleeps in progress and what
\* is left of the pacing interval.
Due ==
    {l.sleep : l \in loops} \cup {calls[c].sleep : c \in Calls}
        \cup {minRequestInterval - timeSinceLastRequest}

\* Time passes until the next timer is due (or the pacing interval is over).
NextTimerDue ==
    /\ \E x \in Due : x > 0
    /\ LET dt == CHOOSE x \in Due : x > 0 /\ \A y \in Due : y > 0 => x <= y IN
       /\ timeSinceLastRequest' = Min2(timeSinceLastRequest + dt, minRequestInterval)
       /\ loops' = {[l EXCEPT !.sleep = ElapseBy(@, dt)] : l \in loops}
       /\ calls' = [c \in Calls |-> [calls[c] EXCEPT !.sleep = ElapseBy(@, dt)]]
    /\ UNCHANGED <<webhook, retryOptions, queue, processing, activeRequests, subs,
                   pushed, dispatched, lastDispatch, checker>>

\* makeRateLimitedRequest(requestFn, retryOptions) is called, or (axios)
\* makeRateLimitedAxiosRequest(axiosConfig, retryOptions), with an options
\* object that leaves some options out.
CallWithOptions(c, axios) ==
    /\ calls[c].pc = "idle"
    /\ \A b \in Calls : b < c => calls[b].pc # "idle"
    /\ IF axios
       THEN MakeRateLimitedAxiosRequest(c, retryOptions)
       ELSE StartAttempt(c, [NewCall EXCEPT !.opts = Destructure(retryOptions)])
    /\ UNCHANGED <<webhook, retryOptions, checker>>

InitDefaults ==
    /\ retryOptions \in SuppliedOptions
    /\ InitGateway

NextDefaults ==
    \/ NextTimerDue
    \/ \E c \in Calls, axios \in BOOLEAN : CallWithOptions(c, axios)
    \/ \E c \in Calls : BackoffWake(c)
    \/ \E c \in Calls, status \in Statuses : BypassSettles(c, status)
    \/ \E l \in loops : PacingWake(l)
    \/ \E l \in loops, status \in Statuses : RequestSettles(l, status)

SpecDefaults == InitDefaults /\ [][NextDefaults]_vars

\* ------------------------------------------- alert checker: invocations
\* The alert checker once more, with what the model above leaves out: the
\* clock, the time reminders, and handler invocations that overlap in one
\* process. Here the variable checker holds the module state
\* (lastRateLimitTime), the clock (now), the document store (active), the
\* number of notifications delivered per document (notified, history) and
\* one record per handler invocation (runs); an upstream price call is one
\* step, the settling of getCoinDataWithChanges.
RATE_LIMIT_COOLDOWN == 30 * 60 * 1000

\* Date.now() when the process starts.
StartTime == ClockStep

\* The one time reminder of the store falls due a clock step later.
Reminders == {1}

TriggerTime(m) == StartTime + m * ClockStep

Documents ==
    {<<"price_alerts", a>> : a \in Alerts}
        \cup {<<"time_reminders", m>> : m \in Reminders}

\* The handler invocations of one process.
Invocations == {1, 2}

\* Mutant of RateLimitedRecently: the cooldown never ends.
NeverExpires(now, last) == last > 0

\* lastRateLimitTime > 0 && (now - lastRateLimitTime) < RATE_LIMIT_COOLDOWN
RateLimitedRecently(now, last) ==
    last > 0 /\ (now - last) < RATE_LIMIT_COOLDOWN

\* A handler invocation that has not been made. asOf is the timestamp of the
\* reminders query in flight; queries and priceCalls count the reads of the
\* store and the upstream calls the invocation has issued, caught the
\* errors its catch (sendError) blocks have logged.
NewRun ==
    [pc |-> "idle", asOf |-> 0, docs |-> <<>>, i |-> 0,
     priceTriggered |-> 0, timeTriggered |-> 0, status |-> 0,
     skipped |-> FALSE, dbError |-> FALSE, queries |-> 0, priceCalls |-> 0,
     caught |-> 0]

InvocationsInit ==
    [now |-> StartTime, lastRateLimitTime |-> 0,
     active |-> [d \in Documents |-> TRUE],
     notified |-> [d \in Documents |-> 0],
     runs |-> [r \in Invocations |-> NewRun]]

\* db.collection('price_alerts').where('isActive', '==', true).get()
ActivePriceAlerts(active) ==
    SelectSeq([a \in 1..MaxAlerts |-> <<"price_alerts", a>>],
              LAMBDA d : active[d])

\* db.collection('time_reminders').where('isActive', '==', true)
\*     .where('triggerTime', '<=', now).get()
DueReminders(active, asOf) ==
    SelectSeq(<<<<"time_reminders", 1>>>>,
              LAMBDA d : active[d] /\ TriggerTime(d[2]) <= asOf)

\* The for loop of checkTimeReminders from document run.i to its next await
\* (the post of the notification), or to the handler's answer.
RemindersLoop(run) ==
    IF run.i > Len(run.docs)
    THEN [run EXCEPT !.pc = "done", !.status = 200, !.docs = <<>>, !.i = 0]
    ELSE [run EXCEPT !.pc = "send"]

\* The for loop of checkPriceAlerts from document run.i to its next await:
\* the upstream call of getCoinDataWithChanges or, the loop over, the query
\* of checkTimeReminders, issued with the timestamp now.
RECURSIVE PriceAlertsLoop(_, _)
PriceAlertsLoop(run, now) ==
    IF run.i > Len(run.docs)
    THEN [run EXCEPT !.pc = "getReminders", !.asOf = now, !.docs = <<>>,
                     !.i = 0, !.queries = @ + 1]
    ELSE IF FirstStage(SymbolOf(run.docs[run.i][2])) = "null"
         THEN PriceAlertsLoop([run EXCEPT !.i = @ + 1], now)
         ELSE [run EXCEPT !.pc = "coin", !.priceCalls = @ + 1]

\* The end of a loop body: on to the next document.
NextDocument(run, now) ==
    IF run.docs[run.i][1] = "price_alerts"
    THEN PriceAlertsLoop([run EXCEPT !.i = @ + 1], now)
    ELSE RemindersLoop([run EXCEPT !.i = @ + 1])

\* Mutant of Caught: the error of the post or of the update ends the run.
Rethrown(run, now) ==
    [run EXCEPT !.pc = "done", !.status = 500, !.docs = <<>>, !.i = 0]

\* catch (sendError) { console.error(...) }: the loop goes on.
Caught(run, now) == NextDocument([run EXCEPT !.caught = @ + 1], now)

\* handler(req, res) is invoked, possibly while an earlier invocation is
\* suspended: in the cooldown it answers 200 with skipped: true, otherwise
\* checkPriceAlerts issues its query.
HandlerInvoked(r) ==
    /\ checker.runs[r].pc = "idle"
    /\ \A q \in Invocations : q < r => checker.runs[q].pc # "idle"
    /\ checker' = [checker EXCEPT !.runs[r] =
          IF RateLimitedRecently(checker.now, checker.lastRateLimitTime)
          THEN [NewRun EXCEPT !.pc = "done", !.status = 200, !.skipped = TRUE]
          ELSE [NewRun EXCEPT !.pc = "getAlerts", !.queries = 1]]
    /\ UNCHANGED <<webhook, retryOptions, calls, gateway>>

\* The query of checkPriceAlerts settles.
PriceAlertsRead(r, ok) ==
    LET run == checker.runs[r] IN
    /\ run.pc = "getAlerts"
    /\ checker' = [checker EXCEPT !.runs[r] =
          IF ok
          THEN PriceAlertsLoop([run EXCEPT
                                   !.docs = ActivePriceAlerts(checker.active),
                                   !.i = 1], checker.now)
          ELSE [run EXCEPT !.pc = "done", !.status = 500, !.dbError = TRUE]]
    /\ UNCHANGED <<webhook, retryOptions, calls, gateway>>

\* What getCoinDataWithChanges settles with, seen from checkPriceAlerts: a
\* coin whose price meets the alert's condition or does not, null, or null
\* after the catch block saw a 429 and stamped lastRateLimitTime.
CoinResults == {"triggered", "untriggered", "null", "rateLimited"}

CoinDataReturns(r, coin) ==
    LET run == checker.runs[r] IN
    /\ run.pc = "coin"
    /\ checker' =
          IF coin = "triggered"
          THEN [checker EXCEPT !.runs[r].pc = "send"]
          ELSE [checker EXCEPT
                   !.lastRateLimitTime =
                       IF coin = "rateLimited" THEN checker.now ELSE @,
                   !.runs[r] = NextDocument(run, checker.now)]
    /\ UNCHANGED <<webhook, retryOptions, calls, gateway>>

\* The post to sendMessage settles: the notification is delivered and the
\* update of the document is issued, or the error is caught.
NotificationSettles(r, ok) ==
    LET run == checker.runs[r]
        d == run.docs[run.i] IN
    /\ run.pc = "send"
    /\ checker' =
          IF ok
          THEN [checker EXCEPT !.notified[d] = @ + 1, !.runs[r].pc = "update"]
          ELSE [checker EXCEPT !.runs[r] = Caught(run, checker.now)]
    /\ UNCHANGED <<webhook, retryOptions, calls, gateway>>

\* doc.ref.update({ isActive: false }) settles: the document is inactive and
\* triggeredCount grows, or the error is caught; the loop goes on.
DeactivationSettles(r, ok) ==
    LET run == checker.runs[r]
        d == run.docs[run.i]
        counted ==
            IF d[1] = "price_alerts"
            THEN [run EXCEPT !.priceTriggered = @ + 1]
            ELSE [run EXCEPT !.timeTriggered = @ + 1] IN
    /\ run.pc = "update"
    /\ checker' =
          IF ok
          THEN [checker EXCEPT !.active[d] = FALSE,
                               !.runs[r] = NextDocument(counted, checker.now)]
          ELSE [checker EXCEPT !.runs[r] = Caught(run, checker.now)]
    /\ UNCHANGED <<webhook, retryOptions, calls, gateway>>

\* The query of checkTimeReminders settles.
RemindersRead(r, ok) ==
    LET run == checker.runs[r] IN
    /\ run.pc = "getReminders"
    /\ checker' = [checker EXCEPT !.runs[r] =
          IF ok
          THEN RemindersLoop([run EXCEPT
                                 !.docs = DueReminders(checker.active, run.asOf),
                                 !.i = 1, !.asOf = 0])
          ELSE [run EXCEPT !.pc = "done", !.status = 500, !.dbError = TRUE,
                           !.asOf = 0]]
    /\ UNCHANGED <<webhook, retryOptions, calls, gateway>>

\* ClockStep milliseconds pass.
ClockAdvances ==
    /\ checker.now < StartTime + MaxClockSteps * ClockStep
    /\ checker' = [checker EXCEPT !.now = @ + ClockStep]
    /\ UNCHANGED <<webhook, retryOptions, calls, gateway>>

NextInvocations ==
    \/ ClockAdvances
    \/ \E r \in Invocations : HandlerInvoked(r)
    \/ \E r \in Invocations, ok \in BOOLEAN : PriceAlertsRead(r, ok)
    \/ \E r \in Invocations, coin \in CoinResults : CoinDataReturns(r, coin)
    \/ \E r \in Invocations, ok \in BOOLEAN : NotificationSettles(r, ok)
    \/ \E r \in Invocations, ok \in BOOLEAN : DeactivationSettles(r, ok)
    \/ \E r \in Invocations, ok \in BOOLEAN : RemindersRead(r, ok)

InitInvocations ==
    /\ retryOptions = ALERT_CHECKER_RATE_LIMIT_CONFIG
    /\ queue = <<>>
    /\ processing = FALSE
    /\ timeSinceLastRequest = minRequestInterval
    /\ activeRequests = <<>>
    /\ loops = {}
    /\ calls = [c \in Calls |-> NewCall]
    /\ subs = <<>>
    /\ pushed = 0
    /\ dispatched = 0
    /\ lastDispatch = NoDispatch
    /\ checker = InvocationsInit
    /\ webhook = WebhookInit

SpecInvocations == InitInvocations /\ [][NextInvocations]_vars

\* -------------------------------------------------- webhook: address posts
\* handler(req, res) is invoked with a message that is an address: it awaits
\* getCoinFromDexScreener(text).
AddressPosted(w, text, chatId) ==
    /\ webhook.hooks[w].pc = "idle"
    /\ \A v \in Webhooks : v < w => webhook.hooks[v].pc # "idle"
    /\ webhook' = [webhook EXCEPT !.hooks[w] =
                      [@ EXCEPT !.pc = "lookup", !.text = text, !.chatId = chatId]]
    /\ UNCHANGED <<retryOptions, calls, gateway, checker>>

\* getCoinFromDexScreener settles: with no data the handler stays silent,
\* with data it awaits getFirstPostInfo(text, chatId).
DexScreenerReturns(w, found) ==
    /\ webhook.hooks[w].pc = "lookup"
    /\ webhook' = [webhook EXCEPT !.hooks[w].pc =
                      IF found THEN "getFirstPost" ELSE "silent"]
    /\ UNCHANGED <<retryOptions, calls, gateway, checker>>

\* getFirstPostInfo settles with info: the reply is signed with it, or,
\* info being null, storeFirstPostInfo is called and awaited.
FirstPostInfoReturns(w) ==
    LET h == webhook.hooks[w] IN
    /\ h.pc = "getFirstPost"
    /\ \E info \in FirstPostInfos(webhook.first_posts, h.text, h.chatId) :
          webhook' = [webhook EXCEPT !.hooks[w] =
                         IF info # NoFirstPost
                         THEN [h EXCEPT !.pc = "replied", !.info = info]
                         ELSE [h EXCEPT !.pc = "store"]]
    /\ UNCHANGED <<retryOptions, calls, gateway, checker>>

\* docRef.set(...) settles: the document is in the collection, or the error
\* is caught; either way the reply is signed with the poster's own data.
\* (The posts of the reply and logUserQuery, which follow, do not touch
\* first_posts.)
StoreFirstPostSettles(w, ok) ==
    LET h == webhook.hooks[w]
        own == FirstPost(w, h.text, h.chatId) IN
    /\ h.pc = "store"
    /\ webhook' = [webhook EXCEPT
                      !.first_posts = IF ok THEN @ \cup {own} ELSE @,
                      !.hooks[w] = [h EXCEPT !.pc = "replied", !.info = own]]
    /\ UNCHANGED <<retryOptions, calls, gateway, checker>>

NextFirstPosts ==
    \/ \E w \in Webhooks, text \in Texts, chatId \in Chats :
          AddressPosted(w, text, chatId)
    \/ \E w \in Webhooks, found \in BOOLEAN : DexScreenerReturns(w, found)
    \/ \E w \in Webhooks : FirstPostInfoReturns(w)
    \/ \E w \in Webhooks, ok \in BOOLEAN : StoreFirstPostSettles(w, ok)

\* The gateway is not used by these steps.
InitFirstPosts ==
    /\ retryOptions = DefaultOptions
    /\ InitGateway

SpecFirstPosts == InitFirstPosts /\ [][NextFirstPosts]_vars

\* ------------------------------------------------------------------ claims
Last(h) == h[Len(h)]

\* The entries that are queued or held by a drain loop.
Outstanding == {queue[i] : i \in 1..Len(queue)} \cup {l.item : l \in loops}

Executing == {l \in loops : l.pc = "exec"}

AllRateLimited(h) == \A i \in 1..Len(h) : h[i].response /\ h[i].status = 429

\* C1: the n-th requestFn the queue starts is the n-th request that was
\* added: the queue holds the youngest entries in arrival order, an entry a
\* drain loop has shifted is the oldest one not yet started, and the latest
\* dispatch is the entry whose arrival number is the number of dispatches
\* before it.
C1_FifoDispatch ==
    /\ \A i \in 1..Len(queue) : queue[i].seq = pushed - Len(queue) + i - 1
    /\ \A l \in loops :
          l.item.seq = IF l.pc = "exec" THEN dispatched - 1 ELSE dispatched
    /\ dispatched > 0 => lastDispatch.seq = dispatched - 1

\* Three requests were added, two of them waited in the queue together, and
\* the third one added is the third one started.
C1_Witness ==
    /\ pushed = 3 /\ dispatched = 3 /\ lastDispatch.seq = 2
    /\ \E l \in loops : l.pc = "exec" /\ l.item.seq = 2

\* C2: at most one requestFn dispatched by the queue is executing.
C2_OneInFlight == Cardinality(Executing) <= 1

\* One request executes while two others, from other submitters, wait.
C2_Witness == Cardinality(Executing) = 1 /\ Len(queue) = 2

\* C3: a dispatch that is not the first one starts at least
\* minRequestInterval after the start of the dispatch before it.
C3_PacingFloor == dispatched >= 2 => lastDispatch.gap >= minRequestInterval

\* The second dispatch is the retry of the request whose first attempt was
\* the first dispatch and failed with 429.
C3_Witness ==
    /\ dispatched = 2
    /\ \E c \in Calls :
          /\ lastDispatch.key = AttemptKey(c, 1)
          /\ Len(calls[c].hist) >= 1
          /\ calls[c].hist[1].status = 429

\* C4: a call all of whose attempts so far failed with 429 has invoked
\* requestFn at most maxRetries + 1 times, it is rejected exactly when the
\* attempt number maxRetries + 1 has failed, and then requestFn was invoked
\* exactly maxRetries + 1 times; with and without the queue.
C4_RetryBudget ==
    \A c \in Calls :
        AllRateLimited(calls[c].hist) =>
            /\ calls[c].invoked <= calls[c].opts.maxRetries + 1
            /\ calls[c].pc # "resolved"
            /\ calls[c].pc = "rejected" <=>
                   Len(calls[c].hist) = calls[c].opts.maxRetries + 1
            /\ calls[c].pc = "rejected" =>
                   calls[c].invoked = calls[c].opts.maxRetries + 1

\* Two calls with maxRetries = 2, one through the queue and one outside it,
\* both rejected after three 429s.
C4_Witness ==
    \E c, b \in Calls :
        /\ calls[c].opts.useQueue /\ ~calls[b].opts.useQueue
        /\ \A x \in {b, c} :
              /\ calls[x].pc = "rejected"
              /\ calls[x].opts.maxRetries = 2
              /\ Len(calls[x].hist) = 3
              /\ AllRateLimited(calls[x].hist)

\* A call was rejected after every attempt of its retry budget failed with 429.
Exhausted(c) ==
    /\ calls[c].pc = "rejected"
    /\ Len(calls[c].hist) = calls[c].opts.maxRetries + 1
    /\ AllRateLimited(calls[c].hist)

\* C5 as stated: at retry exhaustion the caller gets an error of a kind of
\* its own, RateLimitExceeded, distinct from the upstream error it carries.
C5_RateLimitExceededKind ==
    \A c \in Calls :
        Exhausted(c) =>
            /\ calls[c].result.name = "RateLimitExceeded"
            /\ calls[c].result # Last(calls[c].hist)

\* C5 as amended: at retry exhaustion the caller gets the upstream error of
\* the last attempt itself, unwrapped, and it is told apart by its status: a
\* call is rejected with a 429 error exactly at retry exhaustion.
C5_LastUpstreamError ==
    \A c \in Calls :
        /\ Exhausted(c) =>
              /\ calls[c].result = Last(calls[c].hist)
              /\ calls[c].result.name = "UpstreamError"
        /\ Exhausted(c) <=>
              /\ calls[c].pc = "rejected"
              /\ calls[c].result.response
              /\ calls[c].result.status = 429

C5_Witness ==
    \E c \in Calls : Exhausted(c) /\ calls[c].opts.maxRetries = 2

\* C6: the n-th backoff sleep of a call (n = 0 for the first) lasts
\* min(baseDelay * backoffMultiplier^n, maxDelay); the delays of a call never
\* decrease and never exceed maxDelay, and a sleep in progress has at most
\* the latest delay left.
C6_BackoffDelays ==
    \A c \in Calls :
        LET o == calls[c].opts
            d == calls[c].delays IN
        /\ \A n \in 1..Len(d) :
              /\ IF o.baseDelay * Pow(o.backoffMultiplier, n - 1) < o.maxDelay
                 THEN d[n] = o.baseDelay * Pow(o.backoffMultiplier, n - 1)
                 ELSE d[n] = o.maxDelay
              /\ d[n] <= o.maxDelay
              /\ n > 1 => d[n - 1] <= d[n]
        /\ Len(d) = IF calls[c].pc = "backoff"
                    THEN calls[c].attempt + 1 ELSE calls[c].attempt
        /\ calls[c].pc = "backoff" => calls[c].sleep <= Last(d)

\* A call slept baseDelay before its first retry and the capped maxDelay
\* before its second.
C6_Witness ==
    \E c \in Calls :
        /\ Len(calls[c].delays) = 2
        /\ calls[c].delays[1] = calls[c].opts.baseDelay
        /\ calls[c].delays[2] = calls[c].opts.maxDelay
        /\ calls[c].opts.baseDelay * calls[c].opts.backoffMultiplier
               > calls[c].opts.maxDelay

\* C7: once an attempt of a call has failed with an error that is not a 429,
\* the call is rejected with that very error, no backoff sleep was armed for
\* it, and requestFn is not invoked again.
C7_OtherErrorsFailFast ==
    \A c \in Calls :
        LET h == calls[c].hist IN
        (Len(h) > 0 /\ ~Last(h).ok /\ ~(Last(h).response /\ Last(h).status = 429))
            => /\ calls[c].pc = "rejected"
               /\ calls[c].result = Last(h)
               /\ calls[c].invoked = Len(h)
               /\ Len(calls[c].delays) = Len(h) - 1
               /\ calls[c].sleep = 0

\* One call failed with a 500 after a 429, another with an error without a
\* response on its first attempt.
C7_Witness ==
    \E c, b \in Calls :
        /\ Len(calls[c].hist) = 2
        /\ calls[c].hist[1].status = 429
        /\ calls[c].hist[2].status = 500
        /\ calls[c].pc = "rejected"
        /\ Len(calls[b].hist) = 1
        /\ ~calls[b].hist[1].response
        /\ calls[b].pc = "rejected"

\* C8: a direct submission made with the key of an earlier one that is still
\* unsettled never has its own requestFn invoked, the earlier one's is
\* invoked once, the two settle together with the same value or the same
\* error, and no two outstanding entries share a key.
C8_Deduplication ==
    /\ \A d \in Subs :
          subs[d].dupOf # 0 =>
              LET e == subs[d].dupOf IN
              /\ subs[d].invoked = 0
              /\ subs[e].invoked <= 1
              /\ Settled(subs[d].pc) <=> Settled(subs[e].pc)
              /\ Settled(subs[d].pc) =>
                    /\ subs[d].pc = subs[e].pc
                    /\ subs[d].result = subs[e].result
                    /\ subs[e].invoked = 1
                    /\ subs[d].result.inv = <<"sub", e, 1>>
    /\ \A x, y \in Outstanding : x.key = y.key => x = y

\* A duplicate was made while the first submission was executing, and both
\* were rejected with the same error.
C8_Witness ==
    \E d \in Subs :
        /\ subs[d].dupOf # 0
        /\ subs[d].pc = "rejected"
        /\ subs[subs[d].dupOf].pc = "rejected"
        /\ subs[d].result.status = 500

\* The retry loop whose key a direct submission shares.
CallOfKey(key) == key[2]

C10_KeepsSlot ==
    \A c \in Calls :
        (calls[c].opts.useQueue /\ calls[c].invoked >= 1
            /\ ~Settled(calls[c].pc) /\ calls[c].pc # "idle")
            => lastDispatch.owner = CallOwner(c)

\* C10 as amended: the slot is held for one attempt only. While an attempt
\* executes, it is the latest dispatch; a call asleep in backoff holds
\* nothing (no entry, no key), and its retry is a new entry behind every
\* entry pushed before it.
C10_SlotPerAttempt ==
    \A c \in Calls :
        /\ (\E l \in Executing : l.item.owner = CallOwner(c)) =>
              /\ lastDispatch.owner = CallOwner(c)
              /\ lastDispatch.key = AttemptKey(c, calls[c].attempt)
        /\ calls[c].pc = "backoff" =>
              /\ \A e \in Outstanding : e.owner # CallOwner(c)
              /\ \A a \in 0..calls[c].opts.maxRetries :
                    AttemptKey(c, a) \notin DOMAIN activeRequests
        /\ \A i \in 1..Len(queue) :
              queue[i].owner = CallOwner(c) =>
                  /\ queue[i].key = AttemptKey(c, calls[c].attempt)
                  /\ \A j \in 1..Len(queue) : j < i => queue[j].seq < queue[i].seq

\* While a call sleeps in backoff after its first attempt, a request of
\* another submitter, dispatched after that attempt, is executing.
C10_Witness ==
    \E c \in Calls :
        /\ calls[c].pc = "backoff"
        /\ calls[c].invoked = 1
        /\ lastDispatch.owner # CallOwner(c)
        /\ lastDispatch.seq > 0
        /\ \E l \in Executing : l.item.owner # CallOwner(c)

\* A call made with useQueue = false that has started.
Bypassing(c) == calls[c].pc # "idle" /\ ~calls[c].opts.useQueue

\* State part of C11: a bypassing call is never queued, it holds no entry and
\* no key of the queue and is attached to no promise of the queue, and while
\* it awaits requestFn the attempt in progress has been invoked.
C11_NotInQueue ==
    \A c \in Calls :
        Bypassing(c) =>
            /\ calls[c].pc \in {"direct", "backoff", "resolved", "rejected"}
            /\ calls[c].pc = "direct" => calls[c].invoked = calls[c].attempt + 1
            /\ \A e \in Outstanding : e.owner # CallOwner(c)
            /\ \A k \in DOMAIN activeRequests :
                  /\ ~(k[1] = "rate_limit" /\ k[2] = c)
                  /\ CallOwner(c) \notin activeRequests[k]

\* Step part of C11: a step in which a bypassing call starts, retries or
\* settles leaves the queue, the processing flag, lastRequestTime, the drain
\* loop and activeRequests as they are, and a step that takes the call to an
\* attempt invokes requestFn in that very step.
C11_BypassStep ==
    \A c \in Calls :
        (/\ calls'[c].pc # "idle"
         /\ ~calls'[c].opts.useQueue
         /\ \/ calls'[c].pc # calls[c].pc
            \/ calls'[c].attempt # calls[c].attempt)
            => /\ UNCHANGED <<queue, processing, timeSinceLastRequest,
                              activeRequests, loops, pushed, dispatched,
                              lastDispatch>>
               /\ calls'[c].pc = "direct" => calls'[c].invoked = calls[c].invoked + 1

Quiescent ==
    /\ pushed = dispatched
    /\ \A d \in Subs : subs[d].pc # "pending"
    /\ \A c \in Calls : calls[c].pc = "idle" \/ Settled(calls[c].pc)

\* C12: no lost wake-up. With the scheduling of Fairness, every request
\* added to the queue is eventually dispatched and its caller eventually
\* settled: whenever a request is waiting or a caller is unsettled, a state
\* follows in which every request pushed has been dispatched and every
\* caller is settled (a run makes finitely many submissions, so this is the
\* same as saying it of each request).
C12_NoLostWakeup == []<>Quiescent

\* The only two entries ever pushed are the two attempts of one call: the
\* drain loop ended (queue empty, flag cleared) when the first attempt was
\* rejected, the retry arrived after the backoff sleep, found no loop
\* running, and was dispatched and settled.
C12_Witness ==
    \E c \in Calls :
        /\ calls[c].opts.useQueue
        /\ calls[c].pc = "resolved"
        /\ Len(calls[c].hist) = 2
        /\ pushed = 2 /\ dispatched = 2
        /\ ~processing /\ loops = {} /\ Len(queue) = 0

\* State part of C13: an unsettled caller has no result; a resolved one has
\* the value a requestFn resolved to, a rejected one an error a requestFn
\* rejected with; a call has seen the outcome of every attempt it is not
\* awaiting, and its result is the outcome of its last attempt; a settled
\* caller has nothing left in the queue that could settle it again.
C13_Outcome ==
    /\ \A d \in Subs :
          /\ ~Settled(subs[d].pc) => subs[d].result = NoResult
          /\ subs[d].pc = "resolved" =>
                subs[d].result.ok /\ subs[d].result.name = "Response"
          /\ subs[d].pc = "rejected" =>
                ~subs[d].result.ok /\ subs[d].result.name = "UpstreamError"
          /\ Settled(subs[d].pc) =>
                /\ subs[d].result.inv # NoInvocation
                /\ ~subs[d].attached => subs[d].result.inv = <<"sub", d, 1>>
                /\ \A e \in Outstanding : e.owner # SubOwner(d)
                /\ \A k \in DOMAIN activeRequests :
                      SubOwner(d) \notin activeRequests[k]
    /\ \A c \in Calls :
          /\ ~Settled(calls[c].pc) => calls[c].result = NoResult
          /\ calls[c].pc \in {"backoff", "resolved", "rejected"} =>
                Len(calls[c].hist) = calls[c].invoked
          /\ calls[c].pc = "resolved" =>
                /\ calls[c].result.ok /\ calls[c].result.name = "Response"
                /\ calls[c].result = Last(calls[c].hist)
                /\ calls[c].result.inv = <<"call", c, calls[c].invoked>>
          /\ calls[c].pc = "rejected" =>
                /\ ~calls[c].result.ok /\ calls[c].result.name = "UpstreamError"
                /\ calls[c].result = Last(calls[c].hist)
          /\ Settled(calls[c].pc) =>
                \A e \in Outstanding : e.owner # CallOwner(c)

\* Step part of C13: a settled caller is never settled again.
C13_SettledOnce ==
    /\ \A d \in Subs : Settled(subs[d].pc) => subs'[d] = subs[d]
    /\ \A c \in Calls : Settled(calls[c].pc) => calls'[c] = calls[c]

\* C13: every submission settles exactly once, resolving with the value
\* requestFn resolved to when an attempt succeeds and rejecting with the
\* error otherwise; no error is turned into a value and no caller is settled
\* twice.
C13_NeverSwallows == []C13_Outcome /\ [][C13_SettledOnce]_vars

\* A call resolved on its second attempt, a direct submission and the
\* duplicate attached to it were both rejected with the error of the one
\* requestFn that ran.
C13_Witness ==
    /\ \E c \in Calls :
          calls[c].pc = "resolved" /\ Len(calls[c].hist) = 2
    /\ \E d, e \in Subs :
          /\ d # e
          /\ subs[d].pc = "rejected" /\ subs[e].pc = "rejected"
          /\ subs[e].attached
          /\ subs[e].result = subs[d].result

\* An upstream call of the alert checker that got a 429 on both attempts.
BothRateLimited(u) == Len(u.call.hist) = 2 /\ AllRateLimited(u.call.hist)

\* C14: the upstream call of the alert checker runs with maxRetries = 1 and
\* useQueue = false: requestFn is invoked at most twice, the call has no
\* entry and no key in the shared queue; when both attempts got a 429,
\* getCoinDataWithChanges returned null, the alert got no notification in
\* this run and stays active; and the handler answers 500 only when the
\* document store failed, 200 otherwise.
C14_AlertCheckerFailsFast ==
    /\ calls[CheckerCall].pc # "idle" =>
          /\ calls[CheckerCall].opts.maxRetries = 1
          /\ ~calls[CheckerCall].opts.useQueue
          /\ calls[CheckerCall].invoked <= 2
          /\ calls[CheckerCall].pc # "queued"
    /\ \A e \in Outstanding : e.owner # CallOwner(CheckerCall)
    /\ \A k \in DOMAIN activeRequests :
          ~(k[1] = "rate_limit" /\ k[2] = CheckerCall)
    /\ \A n \in 1..Len(checker.upstream) :
          LET u == checker.upstream[n] IN
          /\ u.call.invoked <= 2
          /\ u.call.invoked = Len(u.call.hist)
          /\ BothRateLimited(u) =>
                /\ u.call.pc = "rejected"
                /\ checker.coin[u.alert] = "null"
                /\ u.alert \notin checker.sent
                /\ checker.active[u.alert]
                /\ checker.lastRateLimitTime # "unset"
    /\ checker.status = 500 => checker.dbError
    /\ (checker.pc = "done" /\ ~checker.dbError) => checker.status = 200

\* A run has answered 200: the price call of alert 1 got a 429 twice and the
\* alert was skipped, the run went on to alert 2 and notified it; meanwhile
\* the shared queue was used by a webhook call.
C14_Witness ==
    /\ checker.pc = "done" /\ checker.status = 200 /\ ~checker.skipped
    /\ \E n \in 1..Len(checker.upstream) :
          /\ BothRateLimited(checker.upstream[n])
          /\ checker.upstream[n].alert = 1
    /\ checker.coin[1] = "null" /\ checker.active[1]
    /\ checker.coin[2] = "coin" /\ ~checker.active[2]
    /\ dispatched >= 1

\* C15: at most one processQueue invocation is inside its while loop, and
\* while one is, the processing flag is raised, so that every entry is
\* shifted by that one loop, however many addRequest calls are made while it
\* awaits a request or a pacing sleep.
C15_OneDrainLoop ==
    /\ Cardinality(loops) <= 1
    /\ loops # {} => processing
    /\ \A l \in loops : \A i \in 1..Len(queue) : l.item.seq < queue[i].seq

\* The drain loop is in a pacing sleep, holding the second request ever
\* pushed, and the third request was added meanwhile and waits in the queue.
C15_Witness ==
    /\ pushed = 3
    /\ Len(queue) = 1
    /\ processing
    /\ \E l \in loops : l.pc = "sleep" /\ l.sleep > 0 /\ l.item.seq = 1

\* C16: a submission made without a key is registered under a key of its
\* own: it is never attached to another submission, it has an entry of its
\* own while it is pending and its own requestFn has run when it settles.
\* The same holds of every attempt of every call of makeRateLimitedRequest
\* through the queue: the call is attached to no promise, each attempt has
\* its own entry, and requestFn has been invoked once per attempt.
C16_FreshKeys ==
    /\ \A d \in Subs :
          (subs[d].pc # "idle" /\ subs[d].key[1] = "req") =>
              /\ subs[d].key = GeneratedKey(d)
              /\ ~subs[d].attached /\ subs[d].dupOf = 0
              /\ subs[d].pc = "pending" =>
                    \E e \in Outstanding :
                        e.owner = SubOwner(d) /\ e.key = subs[d].key
              /\ Settled(subs[d].pc) =>
                    subs[d].invoked = 1 /\ subs[d].result.inv = <<"sub", d, 1>>
    /\ \A c \in Calls :
          (calls[c].pc # "idle" /\ calls[c].opts.useQueue) =>
              /\ \A k \in DOMAIN activeRequests :
                    CallOwner(c) \notin activeRequests[k]
              /\ calls[c].pc = "queued" =>
                    \E e \in Outstanding :
                        /\ e.owner = CallOwner(c)
                        /\ e.key = AttemptKey(c, calls[c].attempt)
              /\ calls[c].pc # "queued" =>
                    calls[c].invoked = calls[c].attempt + 1
              /\ Settled(calls[c].pc) =>
                    calls[c].result.inv = <<"call", c, calls[c].invoked>>

\* Two calls made with the same options and a submission without a key are
\* in the queue together, under three keys: the first call executes, the
\* other two requests wait.
C16_Witness ==
    /\ \A c \in Calls : calls[c].pc = "queued" /\ calls[c].opts = calls[1].opts
    /\ \E d \in Subs : subs[d].pc = "pending" /\ subs[d].key = GeneratedKey(d)
    /\ Cardinality(DOMAIN activeRequests) = 3
    /\ Len(queue) = 2
    /\ \E l \in Executing : l.item.owner = CallOwner(1)

\* C17: the keys of activeRequests are the keys of the entries that are
\* queued or held by the drain loop, so a key is removed when its request
\* settles, with a value or with an error, and the map is empty when the
\* queue is empty and the drain loop is not running; a submission made with
\* a key whose earlier request has settled is not attached: it has an entry
\* of its own, and it settles with the outcome of its own requestFn.
C17_ActiveWhileOutstanding ==
    /\ DOMAIN activeRequests = {e.key : e \in Outstanding}
    /\ (Len(queue) = 0 /\ loops = {}) => DOMAIN activeRequests = {}
    /\ \A d \in Subs :
          (subs[d].pc # "idle" /\ ~subs[d].attached) =>
              /\ subs[d].pc = "pending" =>
                    \E e \in Outstanding :
                        e.owner = SubOwner(d) /\ e.key = subs[d].key
              /\ Settled(subs[d].pc) =>
                    /\ subs[d].invoked = 1
                    /\ subs[d].result.inv = <<"sub", d, 1>>
                    /\ subs[d].key \in DOMAIN activeRequests =>
                          \E e \in Subs : e # d /\ subs[e].key = subs[d].key
                                                /\ subs[e].pc = "pending"

\* Two submissions were made with the same caller key, the second after the
\* first was rejected: the second ran its own requestFn and resolved, and
\* the map is empty again.
C17_Witness ==
    \E d, e \in Subs :
        /\ d # e
        /\ subs[d].key \in CallerKeys /\ subs[e].key = subs[d].key
        /\ subs[d].pc = "rejected" /\ ~subs[d].attached
        /\ subs[e].pc = "resolved" /\ ~subs[e].attached
        /\ subs[e].result.inv = <<"sub", e, 1>>
        /\ DOMAIN activeRequests = {}

\* C18: the pacing sleep depends only on the time since the dispatch before.
\* The first request ever dispatched is not delayed; a request the loop
\* takes minRequestInterval or more after the dispatch before it is not
\* delayed; one taken earlier sleeps exactly minRequestInterval minus the
\* time elapsed, and is dispatched no earlier than that.
C18_PacingSleep ==
    \A l \in loops :
        /\ l.item.seq = 0 => l.pc = "exec" /\ l.wait = 0
        /\ l.elapsed >= minRequestInterval => l.pc = "exec" /\ l.wait = 0
        /\ l.elapsed < minRequestInterval =>
              /\ dispatched >= 1
              /\ l.wait = minRequestInterval - l.elapsed
              /\ l.sleep <= l.wait
              /\ timeSinceLastRequest + l.sleep >= minRequestInterval
                    \/ l.pc = "exec"
              /\ l.pc = "exec" => lastDispatch.gap >= l.elapsed + l.wait

\* A request taken by the loop one tick after the dispatch before it has
\* slept the rest of the interval and is executing.
C18_Witness ==
    /\ dispatched = 2
    /\ \E l \in Executing :
          l.elapsed = TickMs /\ l.wait = minRequestInterval - TickMs

\* State part of C19: a resolved call saw a 429 on each of its first k
\* attempts, k <= maxRetries, and a response on attempt k + 1; it holds that
\* response, requestFn was invoked k + 1 times, k backoff sleeps were taken
\* and none is armed, and nothing of the call is left in the queue.
C19_Resolved ==
    \A c \in Calls :
        calls[c].pc = "resolved" =>
            LET h == calls[c].hist
                k == Len(h) - 1 IN
            /\ k >= 0 /\ k <= calls[c].opts.maxRetries
            /\ \A i \in 1..k : h[i].response /\ h[i].status = TooManyRequests
            /\ h[k + 1].ok
            /\ calls[c].result = h[k + 1]
            /\ calls[c].result.inv = <<"call", c, k + 1>>
            /\ calls[c].invoked = k + 1
            /\ calls[c].attempt = k
            /\ Len(calls[c].delays) = k
            /\ calls[c].sleep = 0
            /\ \A e \in Outstanding : e.owner # CallOwner(c)

\* Step part of C19: nothing happens to a call after it resolved.
C19_NothingAfter ==
    \A c \in Calls : calls[c].pc = "resolved" => calls'[c] = calls[c]

\* C19: a call whose requestFn fails with 429 k times and then succeeds
\* resolves with the value of attempt k + 1 after exactly k + 1 invocations
\* and k backoff sleeps, and no attempt or sleep follows the success.
C19_ResolvesAfterRetries == []C19_Resolved /\ [][C19_NothingAfter]_vars

\* A call resolved on its last attempt, maxRetries = 2, after two 429s.
C19_Witness ==
    \E c \in Calls :
        /\ calls[c].pc = "resolved"
        /\ calls[c].opts.maxRetries = 2
        /\ Len(calls[c].hist) = 3
        /\ calls[c].invoked = 3
        /\ Len(calls[c].delays) = 2

\* The option a call runs with, when the caller passed retryOptions.
Effective(n, default) ==
    IF n \in DOMAIN retryOptions THEN retryOptions[n] ELSE default

CallersOf(l) ==
    {l.item.owner} \cup
        (IF l.item.key \in DOMAIN activeRequests
         THEN activeRequests[l.item.key] ELSE {})

\* In this step the requestFn that the drain loop l awaited has failed.
FailsInStep(l) ==
    /\ l.pc = "exec"
    /\ l \notin loops'
    /\ IF l.item.owner[1] = "sub"
       THEN subs'[l.item.owner[2]].pc = "rejected"
       ELSE LET c == l.item.owner[2] IN
            /\ Len(calls'[c].hist) = Len(calls[c].hist) + 1
            /\ ~Last(calls'[c].hist).ok

\* State part of C21: requests never wait in the queue without a drain loop
\* that will take them.
C21_NotStuck == Len(queue) > 0 => (processing /\ loops # {})

\* Step part of C21: in the step in which a dispatched requestFn fails, its
\* entry and its key are gone and its callers have the error; every other
\* caller is where it was, with no result; and the same loop has taken the
\* oldest entry behind it, the rest of the queue keeping its order, or, the
\* queue being empty, has ended with the flag cleared.
C21_FailureStep ==
    \A l \in loops :
        FailsInStep(l) =>
            /\ l.item.key \notin DOMAIN activeRequests'
            /\ \A d \in Subs :
                  IF SubOwner(d) \in CallersOf(l)
                  THEN subs'[d].pc = "rejected" /\ ~subs'[d].result.ok
                  ELSE subs'[d].pc = subs[d].pc /\ subs'[d].result = subs[d].result
            /\ \A c \in Calls :
                  IF CallOwner(c) \in CallersOf(l)
                  THEN /\ calls'[c].pc \in {"rejected", "backoff"}
                       /\ ~Last(calls'[c].hist).ok
                  ELSE /\ calls'[c].pc = calls[c].pc
                       /\ calls'[c].hist = calls[c].hist
                       /\ calls'[c].result = calls[c].result
            /\ IF Len(queue) > 0
               THEN /\ processing'
                    /\ queue' = Tail(queue)
                    /\ \E n \in loops' : n.item = Head(queue)
                    /\ Cardinality(loops') = 1
               ELSE /\ ~processing'
                    /\ queue' = <<>>
                    /\ loops' = {}

\* C21: a request that fails inside the drain loop affects only its own
\* callers: the loop rejects it, stays active and goes on with the requests
\* queued behind it, in order; requests are never left waiting without a
\* loop.
C21_FailureIsolated == []C21_NotStuck /\ [][C21_FailureStep]_vars

\* The first request dispatched was rejected with a 500, the request queued
\* behind it is executing and a third one still waits.
C21_Witness ==
    /\ \E c \in Calls :
          /\ calls[c].opts.useQueue
          /\ calls[c].pc = "rejected"
          /\ Len(calls[c].hist) = 1
          /\ calls[c].hist[1].status = 500
    /\ dispatched = 2
    /\ processing
    /\ Len(queue) = 1
    /\ \E l \in Executing : l.item.seq = 1

\* The program with an upstream that never answers one request: the
\* requestFn of the first direct submission, once invoked, never settles.
Hangs(item) == item.owner = SubOwner(1)

RequestSettlesUnlessHung(l, status) ==
    /\ ~Hangs(l.item)
    /\ RequestSettles(l, status)

NextHung ==
    \/ Tick
    \/ \E c \in Calls, useQueue \in BOOLEAN : MakeRateLimitedRequest(c, useQueue)
    \/ \E c \in Calls : BackoffWake(c)
    \/ \E c \in Calls, status \in Statuses : BypassSettles(c, status)
    \/ \E d \in Subs, k \in CallerKeys \cup {NoKey} : SubmitDirect(d, k)
    \/ \E l \in loops : PacingWake(l)
    \/ \E l \in loops, status \in Statuses : RequestSettlesUnlessHung(l, status)

SpecHung == Init /\ [][NextHung]_vars

\* The caller of a queued entry is still waiting for it.
Waiting(e) ==
    IF e.owner[1] = "sub"
    THEN LET d == e.owner[2] IN
         /\ subs[d].pc = "pending"
         /\ subs[d].invoked = 0
         /\ subs[d].result = NoResult
    ELSE LET c == e.owner[2] IN
         /\ calls[c].pc = "queued"
         /\ calls[c].invoked = calls[c].attempt
         /\ calls[c].result = NoResult

\* C22: no timeout. Once the requestFn that never settles has been invoked,
\* however much time passes, the drain loop still awaits it; every request
\* pushed after it is still in the queue, none of them was dispatched, their
\* callers and the submissions attached to the hung request are unsettled;
\* and a call with useQueue = false is never waiting: it is in its own
\* requestFn, in its own backoff sleep, or settled.
C22_QueueStalls ==
    /\ subs[1].pc \in {"idle", "pending"}
    /\ subs[1].invoked = 1 =>
          \E l \in Executing :
              /\ Hangs(l.item)
              /\ dispatched = l.item.seq + 1
              /\ lastDispatch.seq = l.item.seq
              /\ Len(queue) = pushed - dispatched
              /\ \A i \in 1..Len(queue) :
                    queue[i].seq = l.item.seq + i /\ Waiting(queue[i])
              /\ \A d \in Subs :
                    SubOwner(d) \in CallersOf(l) =>
                        subs[d].pc = "pending" /\ subs[d].result = NoResult
    /\ \A c \in Calls :
          Bypassing(c) =>
              /\ calls[c].pc \in {"direct", "backoff", "resolved", "rejected"}
              /\ calls[c].pc = "direct" => calls[c].invoked = calls[c].attempt + 1

\* The queue has stalled behind the direct submission, more than a pacing
\* interval ago: a call made after it still waits in the queue, never
\* invoked, and a call with useQueue = false made after that one has run
\* requestFn twice and resolved.
C22_Witness ==
    /\ subs[1].invoked = 1 /\ subs[1].pc = "pending"
    /\ timeSinceLastRequest = minRequestInterval
    /\ \E c, b \in Calls :
          /\ c < b
          /\ calls[c].opts.useQueue
          /\ calls[c].pc = "queued" /\ calls[c].invoked = 0
          /\ Len(queue) = 1 /\ queue[1].owner = CallOwner(c)
          /\ ~calls[b].opts.useQueue
          /\ calls[b].pc = "resolved" /\ calls[b].invoked = 2

\* State part of C27: a call with useQueue = false has invoked requestFn at
\* most maxRetries + 1 times; every attempt before the latest failed with
\* 429 and was followed by one backoff sleep of
\* min(baseDelay * backoffMultiplier^attempt, maxDelay); it is asleep only
\* after a 429 that was not the last attempt; and a call that got nothing but
\* 429s is rejected exactly when attempt maxRetries + 1 has failed.
C27_BypassRetries ==
    \A c \in Calls :
        Bypassing(c) =>
            LET h == calls[c].hist
                o == calls[c].opts IN
            /\ calls[c].invoked <= o.maxRetries + 1
            /\ \A i \in 1..(calls[c].invoked - 1) :
                  h[i].response /\ h[i].status = TooManyRequests
            /\ \A n \in 1..Len(calls[c].delays) :
                  calls[c].delays[n] =
                      Min2(o.baseDelay * Pow(o.backoffMultiplier, n - 1), o.maxDelay)
            /\ calls[c].pc = "direct" =>
                  /\ calls[c].invoked = Len(h) + 1
                  /\ Len(calls[c].delays) = Len(h)
            /\ calls[c].pc = "backoff" =>
                  /\ Last(h).response /\ Last(h).status = TooManyRequests
                  /\ calls[c].attempt < o.maxRetries
                  /\ Len(calls[c].delays) = Len(h)
                  /\ calls[c].sleep <= Last(calls[c].delays)
            /\ Settled(calls[c].pc) =>
                  /\ calls[c].invoked = Len(h)
                  /\ Len(calls[c].delays) = Len(h) - 1
            /\ AllRateLimited(h) =>
                  (calls[c].pc = "rejected" <=> Len(h) = o.maxRetries + 1)

\* Step part of C27: such a call goes to sleep for the backoff delay in the
\* step in which an attempt fails with 429, and requestFn is invoked again
\* only in a step that finds the sleep over; neither step touches the queue.
C27_BypassStep ==
    \A c \in Calls :
        Bypassing(c) =>
            /\ (calls[c].pc = "direct" /\ calls'[c].pc = "backoff") =>
                  /\ calls'[c].sleep = BackoffDelay(calls[c].opts, calls[c].attempt)
                  /\ calls'[c].invoked = calls[c].invoked
            /\ (calls[c].pc = "backoff" /\ calls'[c].pc # "backoff") =>
                  /\ calls[c].sleep = 0
                  /\ calls'[c].pc = "direct"
                  /\ calls'[c].attempt = calls[c].attempt + 1
                  /\ calls'[c].invoked = calls[c].invoked + 1
            /\ calls'[c].invoked # calls[c].invoked =>
                  UNCHANGED <<queue, processing, timeSinceLastRequest,
                              activeRequests, loops, pushed, dispatched>>

\* C27: a call with useQueue = false is retried like any other: on a 429 it
\* sleeps the backoff delay and invokes requestFn again, maxRetries + 1
\* invocations at most; the queue, its pacing and its keys are not involved.
C27_BypassStillRetries == []C27_BypassRetries /\ [][C27_BypassStep]_vars

\* A call with useQueue = false and maxRetries = 2 got three 429s, slept 400
\* and 600 ms (the second delay capped) and was rejected; the queue was
\* never used.
C27_Witness ==
    /\ \E c \in Calls :
          /\ Bypassing(c)
          /\ calls[c].opts.maxRetries = 2
          /\ calls[c].pc = "rejected"
          /\ calls[c].invoked = 3
          /\ AllRateLimited(calls[c].hist)
          /\ calls[c].delays = <<400, 600>>
    /\ pushed = 0
    /\ DOMAIN activeRequests = {}
    /\ timeSinceLastRequest = minRequestInterval

\* The keys of the requests that are queued or held by the drain loop.
OutstandingKeys == {e.key : e \in Outstanding}

\* State part of C29: the requestFn of a submission that attached is never
\* invoked and has no entry; when the submission settles, it is with the
\* outcome of an invocation of somebody else's requestFn.
C29_OnlyFirstInvoked ==
    \A d \in Subs :
        subs[d].attached =>
            /\ subs[d].invoked = 0
            /\ \A e \in Outstanding : e.owner # SubOwner(d)
            /\ subs[d].pc = "pending" =>
                  \E k \in DOMAIN activeRequests :
                      k = subs[d].key /\ SubOwner(d) \in activeRequests[k]
            /\ Settled(subs[d].pc) =>
                  /\ subs[d].result.inv # NoInvocation
                  /\ <<subs[d].result.inv[1], subs[d].result.inv[2]>> # SubOwner(d)

\* Step part of C29: a submission made with the key of a request that is
\* queued or executing attaches: the step pushes nothing and invokes
\* nothing, the queue, the keys of activeRequests, the flag, the drain loop
\* and lastRequestTime are what they were, and every other caller is
\* untouched.
C29_AttachStep ==
    \A d \in Subs :
        (subs[d].pc = "idle" /\ subs'[d].pc # "idle"
            /\ subs'[d].key \in OutstandingKeys)
            => /\ subs'[d].attached
               /\ subs'[d].pc = "pending"
               /\ SubOwner(d) \in activeRequests'[subs'[d].key]
               /\ DOMAIN activeRequests' = DOMAIN activeRequests
               /\ UNCHANGED <<queue, processing, timeSinceLastRequest, loops,
                              pushed, dispatched, lastDispatch, calls>>
               /\ \A e \in Subs \ {d} : subs'[e] = subs[e]

\* C29: when a submission attaches to an active key, its requestFn is never
\* called and nothing is pushed for it: the attaching call leaves the queue
\* and the keys of activeRequests as they are.
C29_AttachHasNoEffect == []C29_OnlyFirstInvoked /\ [][C29_AttachStep]_vars

\* Two submissions attached to the first attempt of a call and both were
\* resolved with the response of the call's requestFn, which ran once: one
\* entry was pushed for the three callers.
C29_Witness ==
    \E c \in Calls :
        /\ calls[c].pc = "resolved"
        /\ calls[c].invoked = 1
        /\ \A d \in Subs :
              /\ subs[d].attached
              /\ subs[d].key = AttemptKey(c, 0)
              /\ subs[d].pc = "resolved"
              /\ subs[d].invoked = 0
              /\ subs[d].result.inv = <<"call", c, 1>>
        /\ pushed = 1 /\ dispatched = 1

\* C30: between event-loop turns, a non-empty queue implies that processing
\* is true; processing is true exactly while a processQueue invocation is
\* suspended inside its while loop (in the pacing sleep or awaiting
\* requestFn); so when no loop is suspended the queue is empty and
\* processing is false, and the entries pushed are then all dispatched.
C30_FlagMatchesLoop ==
    /\ Len(queue) > 0 => processing
    /\ processing <=> (\E l \in loops : l.pc \in {"sleep", "exec"})
    /\ loops = {} =>
          /\ Len(queue) = 0
          /\ ~processing
          /\ pushed = dispatched

\* The drain loop has exited after three requests, the last of them a retry
\* pushed while no loop was running: the queue is empty and the flag is
\* cleared.
C30_Witness ==
    /\ pushed = 3 /\ dispatched = 3
    /\ loops = {} /\ ~processing /\ Len(queue) = 0
    /\ lastDispatch.key[1] = "rate_limit" /\ lastDispatch.key[3] = 1
    /\ lastDispatch.gap = minRequestInterval

\* State part of C23: an invocation that was skipped has answered 200 and
\* has read nothing, called nothing and triggered nothing; a 429 had been
\* observed before it; lastRateLimitTime is 0 or a time of the clock.
C23_SkippedDoesNothing ==
    /\ checker.lastRateLimitTime <= checker.now
    /\ \A r \in Invocations :
          LET run == checker.runs[r] IN
          run.skipped =>
              /\ run.pc = "done" /\ run.status = 200
              /\ run.queries = 0 /\ run.priceCalls = 0
              /\ run.priceTriggered = 0 /\ run.timeTriggered = 0
              /\ run.caught = 0 /\ ~run.dbError
              /\ checker.lastRateLimitTime > 0

\* Step part of C23: a handler invocation made less than 30 minutes after
\* lastRateLimitTime was set answers 200 with skipped = true in that very
\* step, which changes nothing else; an invocation made when no 429 was ever
\* observed, or 30 minutes or more after the last one, is not skipped and
\* issues the query of checkPriceAlerts. A finished invocation does nothing
\* more, and a notification is only ever delivered by an invocation that
\* was not skipped.
C23_InvocationStep ==
    /\ \A r \in Invocations :
          LET run == checker.runs[r]
              after == checker'.runs[r] IN
          /\ (run.pc = "idle" /\ after.pc # "idle") =>
                IF /\ checker.lastRateLimitTime > 0
                   /\ checker.now - checker.lastRateLimitTime < 30 * 60 * 1000
                THEN /\ after.skipped /\ after.pc = "done" /\ after.status = 200
                     /\ checker'.active = checker.active
                     /\ checker'.notified = checker.notified
                     /\ checker'.lastRateLimitTime = checker.lastRateLimitTime
                     /\ \A q \in Invocations \ {r} :
                           checker'.runs[q] = checker.runs[q]
                ELSE /\ ~after.skipped
                     /\ after.pc = "getAlerts" /\ after.queries = 1
          /\ run.pc = "done" => after = run
    /\ checker'.notified # checker.notified =>
          \E r \in Invocations :
              /\ checker.runs[r].pc = "send"
              /\ ~checker.runs[r].skipped
              /\ checker'.runs[r].pc = "update"

\* C23: the circuit breaker. Once a 429 was observed, every handler
\* invocation of the process made during the 30 minutes that follow
\* lastRateLimitTime answers 200 with skipped = true and performs no check,
\* no upstream call and no notification; the first invocation made after
\* these 30 minutes runs the checks again.
C23_CircuitBreaker == []C23_SkippedDoesNothing /\ [][C23_InvocationStep]_vars

\* The first invocation saw a 429 on a price call; the second, made 15
\* minutes later while the first was still at work, was skipped.
C23_Witness ==
    /\ checker.lastRateLimitTime = StartTime
    /\ checker.now = StartTime + ClockStep
    /\ checker.runs[1].priceCalls >= 1
    /\ checker.runs[1].pc \notin {"idle", "done"}
    /\ checker.runs[2].skipped
    /\ checker.runs[2].pc = "done" /\ checker.runs[2].status = 200

\* The documents after the current one for which checkPriceAlerts makes an
\* upstream call.
LaterPriceCalls(run) ==
    {j \in (run.i + 1)..Len(run.docs) :
        FirstStage(SymbolOf(run.docs[j][2])) # "null"}

\* In this step the post awaited by invocation r has failed: the invocation
\* leaves the post without going on to the update.
SendFailsInStep(r) ==
    /\ checker.runs[r].pc = "send"
    /\ checker'.runs[r] # checker.runs[r]
    /\ checker'.runs[r].pc # "update"

\* State part of C24: a document is inactive only if a notification for it
\* was delivered; an invocation awaits the update of a document only after
\* its own post succeeded; an invocation has counted no more price alerts
\* and reminders than are inactive; and only a failure of the document
\* store makes the handler answer 500.
C24_DeactivatedAfterSend ==
    /\ \A d \in Documents : ~checker.active[d] => checker.notified[d] >= 1
    /\ \A r \in Invocations :
          LET run == checker.runs[r] IN
          /\ run.pc = "update" => checker.notified[run.docs[run.i]] >= 1
          /\ run.priceTriggered <=
                Cardinality({a \in Alerts : ~checker.active[<<"price_alerts", a>>]})
          /\ run.timeTriggered <=
                Cardinality({m \in Reminders :
                                ~checker.active[<<"time_reminders", m>>]})
          /\ run.status = 500 <=> run.dbError
          /\ (run.pc = "done" /\ ~run.dbError) => run.status = 200

\* Step part of C24. When the post fails, the store and the counts are what
\* they were, the handler does not answer 500, and the loop is at its next
\* document: the next price call, or the reminders query when no alert is
\* left; the next reminder, or the answer 200. A count grows, and a document
\* becomes inactive, only in the step in which the update that follows a
\* delivered notification succeeds.
C24_SendFailureStep ==
    /\ \A r \in Invocations :
          LET run == checker.runs[r]
              after == checker'.runs[r]
              later == LaterPriceCalls(run) IN
          /\ SendFailsInStep(r) =>
                /\ checker'.active = checker.active
                /\ checker'.notified = checker.notified
                /\ after.priceTriggered = run.priceTriggered
                /\ after.timeTriggered = run.timeTriggered
                /\ after.status # 500 /\ ~after.dbError
                /\ IF run.docs[run.i][1] = "price_alerts"
                   THEN IF later = {}
                        THEN after.pc = "getReminders"
                        ELSE /\ after.pc = "coin"
                             /\ after.docs = run.docs
                             /\ after.i \in later
                             /\ \A j \in later : after.i <= j
                   ELSE IF run.i < Len(run.docs)
                        THEN /\ after.pc = "send"
                             /\ after.docs = run.docs
                             /\ after.i = run.i + 1
                        ELSE after.pc = "done" /\ after.status = 200
          /\ (after.priceTriggered # run.priceTriggered
                \/ after.timeTriggered # run.timeTriggered) =>
                /\ run.pc = "update"
                /\ checker.notified[run.docs[run.i]] >= 1
                /\ ~checker'.active[run.docs[run.i]]
                /\ after.priceTriggered + after.timeTriggered =
                      run.priceTriggered + run.timeTriggered + 1
    /\ \A d \in Documents :
          (checker.active[d] /\ ~checker'.active[d]) =>
              \E r \in Invocations :
                  /\ checker.runs[r].pc = "update"
                  /\ checker.runs[r].docs[checker.runs[r].i] = d
                  /\ checker'.runs[r].priceTriggered + checker'.runs[r].timeTriggered
                        = checker.runs[r].priceTriggered
                            + checker.runs[r].timeTriggered + 1

\* C24: a price alert or a time reminder is set inactive and counted only
\* after its notification was sent; when the send fails the document stays
\* active and is not counted, the run is not aborted and goes on with the
\* documents that remain.
C24_CountedAfterSend == []C24_DeactivatedAfterSend /\ [][C24_SendFailureStep]_vars

\* The only invocation made has answered 200: the post for alert 1 failed
\* (one error caught, nothing delivered, the alert still active); alert 2,
\* after it, was notified, set inactive and counted.
C24_Witness ==
    /\ checker.runs[2].pc = "idle"
    /\ checker.runs[1].pc = "done" /\ checker.runs[1].status = 200
    /\ checker.runs[1].caught = 1
    /\ checker.runs[1].priceCalls = 2
    /\ checker.runs[1].priceTriggered = 1
    /\ checker.notified[<<"price_alerts", 1>>] = 0
    /\ checker.active[<<"price_alerts", 1>>]
    /\ checker.notified[<<"price_alerts", 2>>] = 1
    /\ ~checker.active[<<"price_alerts", 2>>]
    /\ checker.notified[<<"time_reminders", 1>>] = 0

\* C25 as stated: no price alert and no time reminder is ever notified more
\* than once, whatever the invocations, their interleaving and the failures
\* of the update.
C25_AtMostOnce == \A d \in Documents : checker.notified[d] <= 1

\* Two invocations that overlap have both delivered the notification of the
\* same price alert and both await its update.
C25_Witness ==
    \E d \in Documents :
        /\ d[1] = "price_alerts"
        /\ checker.notified[d] = 2
        /\ \A r \in Invocations :
              /\ checker.runs[r].pc = "update"
              /\ checker.runs[r].docs[checker.runs[r].i] = d


\* The reactions hung on requestPromise, the promise stored under key: the
\* constructor of line 40 hangs none and addRequest returns the outer
\* promise, so they are the then(resolve).catch(reject) chains of the
\* submissions that attached.
HandlersOn(key) == activeRequests[key]

\* In the step in which a dispatched requestFn fails, the entry's reject
\* calls innerReject(error): requestPromise is rejected with the reactions
\* it has at that moment, and its key is deleted, so it gets no more.
RejectedUnhandled(l) == FailsInStep(l) /\ HandlersOn(l.item.key) = {}

\* C28 as stated: whenever the queue rejects a request, the promise stored
\* in activeRequests has a rejection handler, whether or not a duplicate
\* submission attached to it.
C28_RejectionsHandled == [][\A l \in loops : ~RejectedUnhandled(l)]_vars

\* What the code does instead. The stored promise has a handler exactly when
\* a submission attached; an entry of makeRateLimitedRequest, whose key is
\* new for each attempt, never has one.
C28_HandledOnlyWhenAttached ==
    \A l \in loops :
        /\ HandlersOn(l.item.key) =
              {SubOwner(d) : d \in {x \in Subs :
                  /\ subs[x].pc = "pending"
                  /\ subs[x].attached
                  /\ subs[x].key = l.item.key}}
        /\ l.item.owner[1] = "call" => HandlersOn(l.item.key) = {}

\* A call through the queue was rejected with a 500 and no direct submission
\* was ever made: nothing was attached to the promise of its entry.
C28_Witness ==
    /\ \A d \in Subs : subs[d].pc = "idle"
    /\ \E c \in Calls :
          /\ calls[c].opts.useQueue
          /\ calls[c].pc = "rejected"
          /\ calls[c].hist[1].status = 500
    /\ DOMAIN activeRequests = {}

\* The pairs (address, chat) of first_posts, as the queries see them.
Pairs == {<<ToLowerCase(text), String(chatId)>> : text \in Texts, chatId \in Chats}

\* The invocations that posted the pair and found the token listed.
PostersOf(pair) ==
    {w \in Webhooks :
        /\ webhook.hooks[w].pc \in {"getFirstPost", "store", "replied"}
        /\ <<ToLowerCase(webhook.hooks[w].text), String(webhook.hooks[w].chatId)>>
              = pair}

\* The user whose message with the pair arrived first.
FirstPoster(pair) ==
    CHOOSE w \in PostersOf(pair) : \A v \in PostersOf(pair) : w <= v

RecordsOf(pair) ==
    {rec \in webhook.first_posts : <<rec.address, rec.chatId>> = pair}

\* C26 as stated: for every pair (address, chat) there is at most one
\* first_posts document, and it names the first user who posted the address
\* in the chat, however the webhook invocations interleave.
C26_OneFirstPost ==
    \A pair \in Pairs :
        /\ Cardinality(RecordsOf(pair)) <= 1
        /\ \A rec \in RecordsOf(pair) : rec.firstUsername = FirstPoster(pair)

\* What does hold: a document is written only by an invocation whose query
\* returned nothing, it names the user of that invocation, and a reply is
\* signed with a document of its pair or with the poster's own data.
C26_StoredByPosters ==
    /\ \A rec \in webhook.first_posts :
          /\ rec.id \in PostersOf(<<rec.address, rec.chatId>>)
          /\ rec.firstUsername = rec.id
          /\ webhook.hooks[rec.id].pc = "replied"
          /\ webhook.hooks[rec.id].info = rec
    /\ \A w \in Webhooks :
          LET h == webhook.hooks[w] IN
          h.pc = "replied" =>
              /\ h.info.address = ToLowerCase(h.text)
              /\ h.info.chatId = String(h.chatId)
              /\ h.info.id # w => h.info \in webhook.first_posts

\* Users 1 and 2 posted the same address in the same chat (in two
\* spellings); both queries returned nothing and both stored a document;
\* user 3 then got the document of user 2, who posted second.
C26_Witness ==
    /\ \A w \in Webhooks :
          /\ webhook.hooks[w].pc = "replied"
          /\ webhook.hooks[w].chatId = -1001
    /\ webhook.hooks[1].text = "0xABC" /\ webhook.hooks[2].text = "0xabc"
    /\ Cardinality(RecordsOf(<<"0xabc", "-1001">>)) = 2
    /\ webhook.hooks[3].info.firstUsername = 2

====
